---- MODULE Spec2Model ----
(***************************************************************************)
(* bioproxy: admission controller, warmup manager and chat-completion      *)
(* handler, modelled from the Go sources.                                  *)
(*                                                                         *)
(*   internal/admission/admission.go   Controller                          *)
(*   internal/template/watcher.go      warmup.Manager (admission-based)    *)
(*   internal/warmup/manager.go        warmup.Manager (CancelWarmup-based) *)
(*   internal/proxy/proxy.go           Proxy.handleChatCompletion          *)
(*   internal/state/state.go           State                               *)
(*   internal/kvcache/kvcache.go       the backend's slot and cache files  *)
(*   admin (README.md)                 Metrics, Server.handleMetrics       *)
(***************************************************************************)
EXTENDS Integers, Sequences, FiniteSets, TLC

(***************************************************************************)
(* Bounds                                                                  *)
(***************************************************************************)
\* cap on userQueryCount (concurrent user queries admitted)
MaxUsers == 3
\* number of cancellable contexts created by callers of AcquireWarmup other
\* than the worker
MaxAttempts == 3
\* texts a template can expand to besides the text it had at registration
MaxEdits == 1
\* number of chat-completion requests
MaxRequests == 1
\* chunks of a response body
MaxChunks == 2
\* length of a sequence of queries against the state tracker
MaxSeq == 4
\* calls of Start and Stop on the warmup manager
MaxCalls == 3
\* intervals that elapse on the ticker of one checkLoop
MaxTicks == 2
\* length of a template, in tokens
MaxLen == 6
\* requests recorded in the metrics
MaxRecords == 3
\* messages of a chat-completion request
MaxMessages == 3

(***************************************************************************)
(* Program constants                                                       *)
(***************************************************************************)
IDLE == 0
USER_QUERY == 1
WARMUP_QUERY == 2
\* the nil context.CancelFunc
NilFunc == 0

Prefixes == {"@a", "@b"}
Handles == 1..MaxAttempts
\* the context of the worker's current warmup attempt
WorkerCtx == 1
Requests == 1..MaxRequests

VARIABLES
  \* admission.Controller fields
  currentState, warmupCancelFunc, warmupPrefix, userQueryCount,
  \* cancelCalls[h]: how many times the CancelFunc of the live context h was invoked
  cancelCalls,
  \* number of contexts created so far (context.WithCancel)
  ctxCount,
  \* the latest Controller call: its name, its return value, the record before it
  lastOp, ret, pre,
  \* state.State.lastPrefix
  lastPrefix,
  \* template.Watcher: per prefix NeedsWarmup and ProcessedHash; fileText[p] is
  \* the current empty-message expansion of the template of p (a version number)
  needsWarmup, processedHash, fileText,
  \* warmup.Manager worker (watcher.go): position, prefixes left in this tick,
  \* prefix / context / outcome of the attempt, backend call in flight
  wpc, wQueue, wPrefix, wCtx, wResult, wInflight,
  \* warmup.Manager (manager.go): warmupInProgress, warmupPrefix, warmupCancelFunc
  warmupInProgress, mWarmupPrefix, mWarmupCancelFunc,
  \* admin.Metrics.WarmupCancellations
  warmupCancellations,
  \* handleChatCompletion, per request: position, requestPrefix, backend call in
  \* flight, the calls made so far, status written to the client, chunks flushed
  hpc, hPrefix, hInflight, hTrace, hStatus, hChunks,
  \* a caller of state.State: its latest call (name, argument, lastPrefix
  \* before it, results), the prefixes it has switched to so far, and how
  \* many of its ShouldSave / ShouldRestore evaluations were true
  trackerCall, fed, trues,
  \* warmup.Manager (watcher.go) lifecycle: Manager.running, the channels
  \* stopCh and doneCh, the position of the checkLoop goroutine, its ticker,
  \* the position of the goroutine that calls Start and Stop, its latest call,
  \* and counters: checkAndWarmup calls of the current checkLoop, intervals
  \* elapsed on its ticker, ticks it received, goroutines launched so far,
  \* calls of Start and Stop made so far
  running, stopCh, doneCh, lpc, ticker, mpc, lifeCall,
  checks, intervals, received, launched, lifeCalls,
  \* what the latest CheckForChanges saw and returned
  lastCheck,
  \* inputs and results of the functions studied on their own
  pureIn, pureOut,
  \* the backend: the template whose state slot 0 holds, the template whose
  \* state each cache file holds, and the latest cache call that returned
  slot, files, lastIO,
  \* user requests that have called AcquireUserQuery and not yet
  \* ReleaseUserQuery; whether the system has been left alone (no new user
  \* request, no edit, every warmup completion answered 200), and the
  \* templates whose file cannot be read from then on
  holding, quiet, missing,
  \* per template the text its latest successful warmup sent; the text the
  \* current attempt read
  warmedText, wText,
  \* admin.Metrics.RequestCount and TotalRequests; the /metrics handler
  RequestCount, TotalRequests, scrape

admVars == <<currentState, warmupCancelFunc, warmupPrefix, userQueryCount>>
callVars == <<lastOp, ret, pre>>
watcherVars == <<needsWarmup, processedHash, fileText>>
workerVars == <<wpc, wQueue, wPrefix, wCtx, wResult, wInflight>>
legacyVars == <<warmupInProgress, mWarmupPrefix, mWarmupCancelFunc, warmupCancellations>>
handlerVars == <<hpc, hPrefix, hInflight, hTrace, hStatus, hChunks>>
trackVars == <<trackerCall, fed, trues>>
lifeVars == <<running, stopCh, doneCh, lpc, ticker, mpc, lifeCall,
              checks, intervals, received, launched, lifeCalls>>
checkVars == <<lastCheck>>
pureVars == <<pureIn, pureOut>>
slotVars == <<slot, files, lastIO>>
pairVars == <<holding, quiet, missing>>
warmedVars == <<warmedText, wText>>
metricsVars == <<RequestCount, TotalRequests, scrape>>
extVars == <<slotVars, pairVars, warmedVars, metricsVars>>
vars == <<currentState, warmupCancelFunc, warmupPrefix, userQueryCount,
          cancelCalls, ctxCount, lastOp, ret, pre,
          lastPrefix, needsWarmup, processedHash, fileText,
          wpc, wQueue, wPrefix, wCtx, wResult, wInflight,
          warmupInProgress, mWarmupPrefix, mWarmupCancelFunc, warmupCancellations,
          hpc, hPrefix, hInflight, hTrace, hStatus, hChunks,
          trackerCall, fed, trues,
          running, stopCh, doneCh, lpc, ticker, mpc, lifeCall,
          checks, intervals, received, launched, lifeCalls,
          lastCheck, pureIn, pureOut,
          slot, files, lastIO, holding, quiet, missing, warmedText, wText,
          RequestCount, TotalRequests, scrape>>

Controller ==
  [state |-> currentState, cancel |-> warmupCancelFunc,
   prefix |-> warmupPrefix, count |-> userQueryCount]

\* admission.New
New ==
  /\ currentState = IDLE
  /\ warmupCancelFunc = NilFunc
  /\ warmupPrefix = ""
  /\ userQueryCount = 0

\* invoking a context.CancelFunc
Invoke(h) == cancelCalls' = [cancelCalls EXCEPT ![h] = @ + 1]

(***************************************************************************)
(* Controller methods.  Each runs under c.mu from entry to return, so each *)
(* is one atomic step.  They set the Controller fields, cancelCalls and    *)
(* the return value ret.                                                   *)
(***************************************************************************)
\* AcquireUserQuery that pre-empts a warmup without clearing the stored handle
AcquireUserQuery_KeepHandle ==
  /\ ret' = "true"
  /\ CASE currentState = IDLE ->
            /\ currentState' = USER_QUERY
            /\ userQueryCount' = 1
            /\ UNCHANGED <<warmupCancelFunc, warmupPrefix, cancelCalls>>
       [] currentState = USER_QUERY ->
            /\ userQueryCount' = userQueryCount + 1
            /\ UNCHANGED <<currentState, warmupCancelFunc, warmupPrefix, cancelCalls>>
       [] OTHER ->
            /\ Invoke(warmupCancelFunc)
            /\ currentState' = USER_QUERY
            /\ userQueryCount' = 1
            /\ UNCHANGED <<warmupCancelFunc, warmupPrefix>>

\* AcquireUserQuery that refuses while a warmup is running
AcquireUserQuery_Refuse ==
  CASE currentState = IDLE ->
         /\ ret' = "true"
         /\ currentState' = USER_QUERY
         /\ userQueryCount' = 1
         /\ UNCHANGED <<warmupCancelFunc, warmupPrefix, cancelCalls>>
    [] currentState = USER_QUERY ->
         /\ ret' = "true"
         /\ userQueryCount' = userQueryCount + 1
         /\ UNCHANGED <<currentState, warmupCancelFunc, warmupPrefix, cancelCalls>>
    [] OTHER ->
         /\ ret' = "false"
         /\ UNCHANGED <<admVars, cancelCalls>>

\* AcquireUserQuery that takes the slot from a warmup without invoking its handle
AcquireUserQuery_NoCancel ==
  /\ ret' = "true"
  /\ CASE currentState = IDLE ->
            /\ currentState' = USER_QUERY
            /\ userQueryCount' = 1
            /\ UNCHANGED <<warmupCancelFunc, warmupPrefix, cancelCalls>>
       [] currentState = USER_QUERY ->
            /\ userQueryCount' = userQueryCount + 1
            /\ UNCHANGED <<currentState, warmupCancelFunc, warmupPrefix, cancelCalls>>
       [] OTHER ->
            /\ currentState' = USER_QUERY
            /\ userQueryCount' = 1
            /\ warmupCancelFunc' = NilFunc
            /\ warmupPrefix' = ""
            /\ UNCHANGED cancelCalls

AcquireUserQuery ==
  /\ ret' = "true"
  /\ CASE currentState = IDLE ->
            /\ currentState' = USER_QUERY
            /\ userQueryCount' = 1
            /\ UNCHANGED <<warmupCancelFunc, warmupPrefix, cancelCalls>>
       [] currentState = USER_QUERY ->
            /\ userQueryCount' = userQueryCount + 1
            /\ UNCHANGED <<currentState, warmupCancelFunc, warmupPrefix, cancelCalls>>
       [] currentState = WARMUP_QUERY ->
            /\ IF warmupCancelFunc # NilFunc
                 THEN Invoke(warmupCancelFunc)
                 ELSE UNCHANGED cancelCalls
            /\ currentState' = USER_QUERY
            /\ userQueryCount' = 1
            /\ warmupCancelFunc' = NilFunc
            /\ warmupPrefix' = ""
       [] OTHER ->
            UNCHANGED <<admVars, cancelCalls>>

\* ReleaseUserQuery that goes idle on every release
ReleaseUserQuery_AlwaysIdle ==
  /\ ret' = "void"
  /\ UNCHANGED <<warmupCancelFunc, warmupPrefix, cancelCalls>>
  /\ IF currentState # USER_QUERY
       THEN UNCHANGED <<currentState, userQueryCount>>
       ELSE /\ currentState' = IDLE
            /\ userQueryCount' = 0

ReleaseUserQuery ==
  /\ ret' = "void"
  /\ UNCHANGED <<warmupCancelFunc, warmupPrefix, cancelCalls>>
  /\ IF currentState # USER_QUERY
       THEN UNCHANGED <<currentState, userQueryCount>>
       ELSE IF userQueryCount - 1 <= 0
              THEN /\ currentState' = IDLE
                   /\ userQueryCount' = 0
              ELSE /\ userQueryCount' = userQueryCount - 1
                   /\ UNCHANGED currentState

\* AcquireWarmup that also takes the slot from a running user query
AcquireWarmup_OverUser(prefix, cancelFunc) ==
  /\ UNCHANGED <<userQueryCount, cancelCalls>>
  /\ CASE currentState \in {IDLE, USER_QUERY} ->
            /\ currentState' = WARMUP_QUERY
            /\ warmupPrefix' = prefix
            /\ warmupCancelFunc' = cancelFunc
            /\ ret' = "true"
       [] OTHER ->
            /\ ret' = "false"
            /\ UNCHANGED <<currentState, warmupPrefix, warmupCancelFunc>>

\* AcquireWarmup that records the prefix before looking at the state
AcquireWarmup_RecordFirst(prefix, cancelFunc) ==
  /\ UNCHANGED <<userQueryCount, cancelCalls>>
  /\ warmupPrefix' = prefix
  /\ CASE currentState = IDLE ->
            /\ currentState' = WARMUP_QUERY
            /\ warmupCancelFunc' = cancelFunc
            /\ ret' = "true"
       [] OTHER ->
            /\ ret' = "false"
            /\ UNCHANGED <<currentState, warmupCancelFunc>>

AcquireWarmup(prefix, cancelFunc) ==
  /\ UNCHANGED <<userQueryCount, cancelCalls>>
  /\ CASE currentState = IDLE ->
            /\ currentState' = WARMUP_QUERY
            /\ warmupPrefix' = prefix
            /\ warmupCancelFunc' = cancelFunc
            /\ ret' = "true"
       [] OTHER ->
            /\ ret' = "false"
            /\ UNCHANGED <<currentState, warmupPrefix, warmupCancelFunc>>

\* ReleaseWarmup that leaves the stored handle in place
ReleaseWarmup_KeepHandle ==
  /\ ret' = "void"
  /\ UNCHANGED <<userQueryCount, cancelCalls>>
  /\ IF currentState # WARMUP_QUERY
       THEN UNCHANGED <<currentState, warmupCancelFunc, warmupPrefix>>
       ELSE /\ currentState' = IDLE
            /\ UNCHANGED <<warmupCancelFunc, warmupPrefix>>

\* ReleaseWarmup that frees the slot whatever state it finds
ReleaseWarmup_AlwaysIdle ==
  /\ ret' = "void"
  /\ UNCHANGED cancelCalls
  /\ currentState' = IDLE
  /\ userQueryCount' = 0
  /\ warmupCancelFunc' = NilFunc
  /\ warmupPrefix' = ""

ReleaseWarmup ==
  /\ ret' = "void"
  /\ UNCHANGED <<userQueryCount, cancelCalls>>
  /\ IF currentState # WARMUP_QUERY
       THEN UNCHANGED <<currentState, warmupCancelFunc, warmupPrefix>>
       ELSE /\ currentState' = IDLE
            /\ warmupCancelFunc' = NilFunc
            /\ warmupPrefix' = ""


(***************************************************************************)
(* state.State                                                             *)
(***************************************************************************)
\* ShouldSave without the test for an empty old prefix
ShouldSave_IgnoreEmpty(newPrefix) == lastPrefix # newPrefix

ShouldSave(newPrefix) == lastPrefix # "" /\ lastPrefix # newPrefix

\* ShouldRestore without the test for an empty new prefix
ShouldRestore_IgnoreEmpty(newPrefix) == lastPrefix # newPrefix

ShouldRestore(newPrefix) == newPrefix # "" /\ lastPrefix # newPrefix

\* UpdatePrefix that keeps the old prefix when the request had none
UpdatePrefix_KeepOnEmpty(prefix) ==
  lastPrefix' = IF prefix = "" THEN lastPrefix ELSE prefix

UpdatePrefix(prefix) == lastPrefix' = prefix

(***************************************************************************)
(* template.Watcher                                                        *)
(***************************************************************************)
\* SHA-256 of the expanded text: distinct texts have distinct digests
hashString(s) == <<"sha256", s>>

\* a check that stores the digest of the error text for a file it cannot read
CheckedEntry_HashError(p, unreadable) ==
  IF needsWarmup[p]
    THEN [needs |-> TRUE, hash |-> processedHash[p], changed |-> TRUE]
    ELSE IF p \in unreadable
      THEN [needs |-> TRUE, hash |-> hashString(fileText[p]), changed |-> TRUE]
      ELSE IF hashString(fileText[p]) # processedHash[p]
        THEN [needs |-> TRUE, hash |-> hashString(fileText[p]), changed |-> TRUE]
        ELSE [needs |-> FALSE, hash |-> processedHash[p], changed |-> FALSE]

\* the entry of prefix p after CheckForChanges has looked at it; unreadable
\* is the set of templates whose file cannot be read in this check
CheckedEntry(p, unreadable) ==
  IF needsWarmup[p]
    THEN [needs |-> TRUE, hash |-> processedHash[p], changed |-> TRUE]
    ELSE IF p \in unreadable
      THEN [needs |-> needsWarmup[p], hash |-> processedHash[p], changed |-> FALSE]
      ELSE IF hashString(fileText[p]) # processedHash[p]
        THEN [needs |-> TRUE, hash |-> hashString(fileText[p]), changed |-> TRUE]
        ELSE [needs |-> FALSE, hash |-> processedHash[p], changed |-> FALSE]

\* all orders in which a map iteration can report the set S
RECURSIVE Orders(_)
Orders(S) ==
  IF S = {} THEN {<<>>}
  ELSE UNION {{<<x>> \o t : t \in Orders(S \ {x})} : x \in S}

\* CheckForChanges: updates the entries, returns the changed prefixes in
\* changed; unreadable is the set of templates whose file cannot be read now
CheckForChanges(changed, unreadable) ==
  /\ needsWarmup' = [p \in Prefixes |-> CheckedEntry(p, unreadable).needs]
  /\ processedHash' = [p \in Prefixes |-> CheckedEntry(p, unreadable).hash]
  /\ changed \in Orders({p \in Prefixes : CheckedEntry(p, unreadable).changed})
  /\ UNCHANGED fileText

MarkWarmedUp(prefix) == needsWarmup' = [needsWarmup EXCEPT ![prefix] = FALSE]

\* NewWatcher followed by AddTemplate for every configured prefix
AddTemplates ==
  /\ fileText = [p \in Prefixes |-> 0]
  /\ processedHash = [p \in Prefixes |-> hashString(0)]
  /\ needsWarmup = [p \in Prefixes |-> TRUE]

(***************************************************************************)
(* Callers of the Controller                                               *)
(***************************************************************************)
Record(op) == lastOp' = op /\ pre' = Controller

NoCall == [op |-> "none", prefix |-> ""]

\* a user request takes the slot
callAcquireUserQuery ==
  /\ userQueryCount < MaxUsers
  /\ AcquireUserQuery
  /\ Record("AcquireUserQuery")
  /\ UNCHANGED <<ctxCount, lastPrefix, watcherVars, workerVars>>
  /\ UNCHANGED <<legacyVars, handlerVars, trackVars, lifeVars, checkVars, pureVars, slotVars, warmedVars, metricsVars>>

\* callAcquireUserQuery by a caller whose requests are not counted
CallAcquireUserQuery == callAcquireUserQuery /\ UNCHANGED pairVars

\* a user request gives the slot back
callReleaseUserQuery ==
  /\ ReleaseUserQuery
  /\ Record("ReleaseUserQuery")
  /\ UNCHANGED <<ctxCount, lastPrefix, watcherVars, workerVars>>
  /\ UNCHANGED <<legacyVars, handlerVars, trackVars, lifeVars, checkVars, pureVars, slotVars, warmedVars, metricsVars>>

\* callReleaseUserQuery by a caller whose requests are not counted
CallReleaseUserQuery == callReleaseUserQuery /\ UNCHANGED pairVars

\* the caller creates a fresh cancellable context and passes its CancelFunc
CallAcquireWarmup ==
  /\ ctxCount < MaxAttempts
  /\ ctxCount' = ctxCount + 1
  /\ \E p \in Prefixes : AcquireWarmup(p, ctxCount + 1)
  /\ Record("AcquireWarmup")
  /\ UNCHANGED <<lastPrefix, watcherVars, workerVars>>
  /\ UNCHANGED <<legacyVars, handlerVars, trackVars, lifeVars, checkVars, pureVars, extVars>>

CallReleaseWarmup ==
  /\ ReleaseWarmup
  /\ Record("ReleaseWarmup")
  /\ UNCHANGED <<ctxCount, lastPrefix, watcherVars, workerVars>>
  /\ UNCHANGED <<legacyVars, handlerVars, trackVars, lifeVars, checkVars, pureVars, extVars>>

WorkerInit ==
  /\ wpc = "wait"
  /\ wQueue = <<>>
  /\ wPrefix = ""
  /\ wCtx = NilFunc
  /\ wResult = ""
  /\ wInflight = NoCall

\* warmup.New (manager.go) and admin.NewMetrics
ManagerInit ==
  /\ warmupInProgress = FALSE
  /\ mWarmupPrefix = ""
  /\ mWarmupCancelFunc = NilFunc
  /\ warmupCancellations = [p \in Prefixes |-> 0]

\* no chat-completion request has arrived yet
HandlerInit ==
  /\ hpc = [r \in Requests |-> "idle"]
  /\ hPrefix = [r \in Requests |-> ""]
  /\ hInflight = [r \in Requests |-> NoCall]
  /\ hTrace = [r \in Requests |-> <<>>]
  /\ hStatus = [r \in Requests |-> 0]
  /\ hChunks = [r \in Requests |-> 0]

\* state.New, and a caller that has not called yet
TrackerInit ==
  /\ trackerCall = [op |-> "New", arg |-> "", before |-> "", ret |-> <<>>]
  /\ fed = <<>>
  /\ trues = 0

\* warmup.New (watcher.go): not running, both channels made and open, no
\* checkLoop goroutine yet
LifecycleInit ==
  /\ running = FALSE
  /\ stopCh = "open"
  /\ doneCh = "open"
  /\ lpc = "none"
  /\ ticker = "none"
  /\ mpc = "idle"
  /\ lifeCall = [op |-> "New", ret |-> "", wasRunning |-> FALSE]
  /\ checks = 0
  /\ intervals = 0
  /\ received = 0
  /\ launched = 0
  /\ lifeCalls = 0

\* CheckForChanges has not been called yet
CheckInit ==
  lastCheck = [done |-> FALSE, text |-> [p \in Prefixes |-> 0],
               unreadable |-> {}, changed |-> {}]

\* the backend has just started: slot 0 is empty and no cache file exists
BackendInit ==
  /\ slot = ""
  /\ files = [p \in Prefixes \cup {""} |-> "none"]
  /\ lastIO = [op |-> "none", prefix |-> "", outcome |-> ""]

\* no user request holds the slot
PairInit ==
  /\ holding = 0
  /\ quiet = FALSE
  /\ missing = {}

\* no warmup has been sent
WarmedInit ==
  /\ warmedText = [p \in Prefixes |-> [warmed |-> FALSE, text |-> 0]]
  /\ wText = 0

Endpoints == {"/v1/chat/completions", "/health"}
StatusCodes == {200, 502}

\* admin.NewMetrics, and no /metrics request yet
MetricsInit ==
  /\ RequestCount = [k \in Endpoints \X StatusCodes |-> 0]
  /\ TotalRequests = 0
  /\ scrape = [pc |-> "idle", snapshot |-> [k \in Endpoints \X StatusCodes |-> 0],
               count |-> 0]

\* no function is being studied on its own
NoInput == [fn |-> "none"]
NoOutput == [fn |-> "none"]

PureInit ==
  /\ pureIn = NoInput
  /\ pureOut = NoOutput

\* the program after construction
ProgramInit ==
  /\ New
  /\ cancelCalls = [h \in Handles |-> 0]
  /\ ctxCount = 0
  /\ lastOp = "New"
  /\ ret = "void"
  /\ pre = Controller
  /\ lastPrefix = ""
  /\ AddTemplates
  /\ WorkerInit
  /\ ManagerInit
  /\ HandlerInit
  /\ TrackerInit
  /\ LifecycleInit
  /\ CheckInit
  /\ BackendInit
  /\ PairInit
  /\ WarmedInit
  /\ MetricsInit

Init ==
  /\ ProgramInit
  /\ PureInit

(***************************************************************************)
(* Spec: the Controller under any sequence of calls by any callers.        *)
(***************************************************************************)
Next ==
  \/ CallAcquireUserQuery
  \/ CallReleaseUserQuery
  \/ CallAcquireWarmup
  \/ CallReleaseWarmup

Spec == Init /\ [][Next]_vars

(***************************************************************************)
(* warmup.Manager (watcher.go): the worker goroutine.                      *)
(***************************************************************************)
\* the lists CheckForChanges can return
ChangedLists == UNION {Orders(S) : S \in SUBSET Prefixes}

\* checkAndWarmup up to the loop: CheckForChanges and the list it returned
checkAndWarmup(changed, unreadable) ==
  /\ wpc = "wait"
  /\ CheckForChanges(changed, unreadable)
  /\ wQueue' = changed
  /\ wpc' = "next"
  /\ UNCHANGED <<admVars, cancelCalls, ctxCount, callVars, lastPrefix,
                 wPrefix, wCtx, wResult, wInflight>>
  /\ UNCHANGED <<legacyVars, handlerVars, trackVars, pureVars, extVars>>

\* the loop of checkAndWarmup has no prefix left: checkAndWarmup returns
checkAndWarmupReturn ==
  /\ wpc = "next"
  /\ wQueue = <<>>
  /\ wpc' = "wait"
  /\ UNCHANGED <<admVars, cancelCalls, ctxCount, callVars, lastPrefix, watcherVars,
                 wQueue, wPrefix, wCtx, wResult, wInflight>>
  /\ UNCHANGED <<legacyVars, handlerVars, trackVars, checkVars, pureVars, extVars>>

\* a worker that is always running and whose ticker can fire at any time
CheckAndWarmup ==
  /\ \E unreadable \in SUBSET Prefixes : \E changed \in ChangedLists :
       checkAndWarmup(changed, unreadable)
  /\ UNCHANGED <<lifeVars, checkVars>>

TickDone == checkAndWarmupReturn /\ UNCHANGED lifeVars

\* warmupTemplate: context.WithCancel and AcquireWarmup
WarmupAcquire ==
  /\ wpc = "next"
  /\ wQueue # <<>>
  /\ wCtx' = WorkerCtx
  /\ wPrefix' = Head(wQueue)
  /\ AcquireWarmup(Head(wQueue), WorkerCtx)
  /\ Record("AcquireWarmup")
  /\ IF ret' = "true"
       THEN wpc' = "shouldSave" /\ wResult' = ""
       ELSE wpc' = "deferCancel" /\ wResult' = "warmup skipped"
  /\ UNCHANGED <<ctxCount, lastPrefix, watcherVars, wQueue, wInflight>>
  /\ UNCHANGED <<legacyVars, handlerVars, trackVars, lifeVars, checkVars, pureVars, extVars>>

\* warmupTemplate step 1: ShouldSave
WarmupShouldSave ==
  /\ wpc = "shouldSave"
  /\ wpc' = IF ShouldSave(wPrefix) THEN "getLast" ELSE "shouldRestore"
  /\ UNCHANGED <<admVars, cancelCalls, ctxCount, callVars, lastPrefix, watcherVars,
                 wQueue, wPrefix, wCtx, wResult, wInflight>>
  /\ UNCHANGED <<legacyVars, handlerVars, trackVars, lifeVars, checkVars, pureVars, extVars>>

\* GetLastPrefix, and the save request for that prefix is sent
WarmupSave ==
  /\ wpc = "getLast"
  /\ wInflight' = [op |-> "save", prefix |-> lastPrefix]
  /\ wpc' = "saving"
  /\ UNCHANGED <<admVars, cancelCalls, ctxCount, callVars, lastPrefix, watcherVars,
                 wQueue, wPrefix, wCtx, wResult>>
  /\ UNCHANGED <<legacyVars, handlerVars, trackVars, lifeVars, checkVars, pureVars, extVars>>

\* kvCache.Save returns (with or without an error: the warmup goes on)
warmupSaveReturn ==
  /\ wpc = "saving"
  /\ wInflight' = NoCall
  /\ wpc' = "shouldRestore"
  /\ UNCHANGED <<admVars, cancelCalls, ctxCount, callVars, lastPrefix, watcherVars,
                 wQueue, wPrefix, wCtx, wResult>>
  /\ UNCHANGED <<legacyVars, handlerVars, trackVars, lifeVars, checkVars, pureVars, pairVars, warmedVars, metricsVars>>

\* warmupSaveReturn where the contents of slot 0 and of the cache files are not followed
WarmupSaveReturn == warmupSaveReturn /\ UNCHANGED slotVars

\* warmupTemplate step 2: ShouldRestore, the restore request is sent
WarmupRestore ==
  /\ wpc = "shouldRestore"
  /\ IF ShouldRestore(wPrefix)
       THEN /\ wInflight' = [op |-> "restore", prefix |-> wPrefix]
            /\ wpc' = "restoring"
       ELSE /\ wpc' = "process"
            /\ UNCHANGED wInflight
  /\ UNCHANGED <<admVars, cancelCalls, ctxCount, callVars, lastPrefix, watcherVars,
                 wQueue, wPrefix, wCtx, wResult>>
  /\ UNCHANGED <<legacyVars, handlerVars, trackVars, lifeVars, checkVars, pureVars, extVars>>

\* kvCache.Restore returns (200, 404 or an error: the warmup goes on)
warmupRestoreReturn ==
  /\ wpc = "restoring"
  /\ wInflight' = NoCall
  /\ wpc' = "process"
  /\ UNCHANGED <<admVars, cancelCalls, ctxCount, callVars, lastPrefix, watcherVars,
                 wQueue, wPrefix, wCtx, wResult>>
  /\ UNCHANGED <<legacyVars, handlerVars, trackVars, lifeVars, checkVars, pureVars, pairVars, warmedVars, metricsVars>>

\* warmupRestoreReturn where the contents of slot 0 and of the cache files are not followed
WarmupRestoreReturn == warmupRestoreReturn /\ UNCHANGED slotVars

\* warmupTemplate step 3: ProcessTemplate(prefix, ""), which fails when the
\* template file cannot be read
warmupProcess ==
  /\ wpc = "process"
  /\ \E readable \in BOOLEAN :
       IF readable
         THEN wpc' = "send" /\ UNCHANGED wResult
         ELSE wpc' = "release" /\ wResult' = "template_error"
  /\ UNCHANGED <<admVars, cancelCalls, ctxCount, callVars, lastPrefix, watcherVars,
                 wQueue, wPrefix, wCtx, wInflight>>
  /\ UNCHANGED <<legacyVars, handlerVars, trackVars, lifeVars, checkVars, pureVars, slotVars, pairVars, metricsVars>>

\* step 3 returning on a template error without the release having been deferred
WarmupProcess_NoRelease ==
  /\ wpc = "process"
  /\ \E readable \in BOOLEAN :
       IF readable
         THEN wpc' = "send" /\ UNCHANGED wResult
         ELSE wpc' = "deferCancel" /\ wResult' = "template_error"
  /\ UNCHANGED <<admVars, cancelCalls, ctxCount, callVars, lastPrefix, watcherVars,
                 wQueue, wPrefix, wCtx, wInflight>>
  /\ UNCHANGED <<legacyVars, handlerVars, trackVars, lifeVars, checkVars, pureVars, extVars>>

\* warmupProcess where the text that was sent is not remembered
WarmupProcess == warmupProcess /\ UNCHANGED warmedVars

\* warmupTemplate step 4: sendWarmupRequest hands the request to the HTTP
\* client; a context that is already cancelled makes client.Do fail at once
WarmupSend ==
  /\ wpc = "send"
  /\ IF cancelCalls[wCtx] > 0
       THEN /\ wpc' = "release"
            /\ wResult' = "warmup cancelled"
            /\ UNCHANGED wInflight
       ELSE /\ wpc' = "completing"
            /\ wInflight' = [op |-> "completion", prefix |-> wPrefix]
            /\ UNCHANGED wResult
  /\ UNCHANGED <<admVars, cancelCalls, ctxCount, callVars, lastPrefix, watcherVars,
                 wQueue, wPrefix, wCtx>>
  /\ UNCHANGED <<legacyVars, handlerVars, trackVars, lifeVars, checkVars, pureVars, extVars>>

\* the backend answered 200 (the error of reading the body is ignored)
warmupCompletionOK ==
  /\ wpc = "completing"
  /\ wInflight' = NoCall
  /\ wpc' = "update"
  /\ UNCHANGED <<admVars, cancelCalls, ctxCount, callVars, lastPrefix, watcherVars,
                 wQueue, wPrefix, wCtx, wResult>>
  /\ UNCHANGED <<legacyVars, handlerVars, trackVars, lifeVars, checkVars, pureVars, pairVars, warmedVars, metricsVars>>

\* warmupCompletionOK where the contents of slot 0 and of the cache files are not followed
WarmupCompletionOK == warmupCompletionOK /\ UNCHANGED slotVars

\* client.Do failed or the status was not 200; ctx.Err() tells cancellation
\* from failure
WarmupCompletionErr ==
  /\ wpc = "completing"
  /\ wInflight' = NoCall
  /\ wpc' = "release"
  /\ wResult' = IF cancelCalls[wCtx] > 0 THEN "warmup cancelled" ELSE "completion_failed"
  /\ UNCHANGED <<admVars, cancelCalls, ctxCount, callVars, lastPrefix, watcherVars,
                 wQueue, wPrefix, wCtx>>
  /\ UNCHANGED <<legacyVars, handlerVars, trackVars, lifeVars, checkVars, pureVars, extVars>>

\* warmupTemplate step 5: UpdatePrefix, return nil
warmupUpdate ==
  /\ wpc = "update"
  /\ UpdatePrefix(wPrefix)
  /\ wResult' = "ok"
  /\ wpc' = "release"
  /\ UNCHANGED <<admVars, cancelCalls, ctxCount, callVars, watcherVars,
                 wQueue, wPrefix, wCtx, wInflight>>
  /\ UNCHANGED <<legacyVars, handlerVars, trackVars, lifeVars, checkVars, pureVars, slotVars, pairVars, metricsVars>>

\* warmupUpdate where the text that was sent is not remembered
WarmupUpdate == warmupUpdate /\ UNCHANGED warmedVars

\* deferred ReleaseWarmup
WarmupRelease ==
  /\ wpc = "release"
  /\ ReleaseWarmup
  /\ Record("ReleaseWarmup")
  /\ wpc' = "deferCancel"
  /\ UNCHANGED <<ctxCount, lastPrefix, watcherVars, wQueue, wPrefix, wCtx, wResult, wInflight>>
  /\ UNCHANGED <<legacyVars, handlerVars, trackVars, lifeVars, checkVars, pureVars, extVars>>

\* a scheduler that leaves the template marked after a successful attempt
WarmupReturn_NeverMark ==
  /\ wpc = "deferCancel"
  /\ cancelCalls' = [cancelCalls EXCEPT ![wCtx] = 0]
  /\ wCtx' = NilFunc
  /\ UNCHANGED watcherVars
  /\ wQueue' = Tail(wQueue)
  /\ wpc' = "next"
  /\ UNCHANGED <<admVars, ctxCount, callVars, lastPrefix, wPrefix, wResult, wInflight>>
  /\ UNCHANGED <<legacyVars, handlerVars, trackVars, lifeVars, checkVars, pureVars, extVars>>

\* a scheduler that marks the template warmed whatever the attempt returned
WarmupReturn_MarkAlways ==
  /\ wpc = "deferCancel"
  /\ cancelCalls' = [cancelCalls EXCEPT ![wCtx] = 0]
  /\ wCtx' = NilFunc
  /\ MarkWarmedUp(wPrefix) /\ UNCHANGED <<processedHash, fileText>>
  /\ wQueue' = Tail(wQueue)
  /\ wpc' = "next"
  /\ UNCHANGED <<admVars, ctxCount, callVars, lastPrefix, wPrefix, wResult, wInflight>>
  /\ UNCHANGED <<legacyVars, handlerVars, trackVars, lifeVars, checkVars, pureVars, extVars>>

\* deferred cancel(), after which nothing refers to the context any more;
\* back in checkAndWarmup, MarkWarmedUp after a nil error
WarmupReturn ==
  /\ wpc = "deferCancel"
  /\ cancelCalls' = [cancelCalls EXCEPT ![wCtx] = 0]
  /\ wCtx' = NilFunc
  /\ IF wResult = "ok"
       THEN MarkWarmedUp(wPrefix) /\ UNCHANGED <<processedHash, fileText>>
       ELSE UNCHANGED watcherVars
  /\ wQueue' = Tail(wQueue)
  /\ wpc' = "next"
  /\ UNCHANGED <<admVars, ctxCount, callVars, lastPrefix, wPrefix, wResult, wInflight>>
  /\ UNCHANGED <<legacyVars, handlerVars, trackVars, lifeVars, checkVars, pureVars, extVars>>

\* somebody edits a template file or a file it includes: the expansion of
\* the template becomes any other text, one it had before included
EditFile ==
  \E p \in Prefixes, text \in 0..MaxEdits :
    /\ text # fileText[p]
    /\ fileText' = [fileText EXCEPT ![p] = text]
    /\ UNCHANGED <<trackVars, lifeVars, checkVars, pureVars, extVars,
                   admVars, cancelCalls, ctxCount, callVars, lastPrefix,
                   needsWarmup, processedHash, workerVars, legacyVars, handlerVars>>

(***************************************************************************)
(* SpecWarmup: the worker, with user requests taking and giving back the   *)
(* slot at any time.                                                       *)
(***************************************************************************)
NextWarmup ==
  \/ CheckAndWarmup
  \/ TickDone
  \/ WarmupAcquire
  \/ WarmupShouldSave
  \/ WarmupSave
  \/ WarmupSaveReturn
  \/ WarmupRestore
  \/ WarmupRestoreReturn
  \/ WarmupProcess
  \/ WarmupSend
  \/ WarmupCompletionOK
  \/ WarmupCompletionErr
  \/ WarmupUpdate
  \/ WarmupRelease
  \/ WarmupReturn
  \/ EditFile
  \/ CallAcquireUserQuery
  \/ CallReleaseUserQuery

SpecWarmup == Init /\ [][NextWarmup]_vars

(***************************************************************************)
(* warmup.Manager (manager.go): the worker that tracks its own warmup in   *)
(* warmupInProgress and is cancelled through CancelWarmup.  Between the    *)
(* first and the last statement of warmupTemplate it runs the statements   *)
(* modelled by WarmupShouldSave .. WarmupUpdate above.                     *)
(***************************************************************************)
\* warmupTemplate: context.WithCancel, then the warmup state is recorded
ManagerWarmupStart ==
  /\ wpc = "next"
  /\ wQueue # <<>>
  /\ wCtx' = WorkerCtx
  /\ wPrefix' = Head(wQueue)
  /\ warmupInProgress' = TRUE
  /\ mWarmupPrefix' = Head(wQueue)
  /\ mWarmupCancelFunc' = WorkerCtx
  /\ wpc' = "shouldSave"
  /\ wResult' = ""
  /\ UNCHANGED <<trackVars, lifeVars, checkVars, pureVars, extVars,
                 admVars, cancelCalls, ctxCount, callVars, lastPrefix, watcherVars,
                 wQueue, wInflight, warmupCancellations, handlerVars>>

\* the deferred function that clears the warmup state
ManagerWarmupEnd ==
  /\ wpc = "release"
  /\ warmupInProgress' = FALSE
  /\ mWarmupPrefix' = ""
  /\ mWarmupCancelFunc' = NilFunc
  /\ wpc' = "deferCancel"
  /\ UNCHANGED <<trackVars, lifeVars, checkVars, pureVars, extVars,
                 admVars, cancelCalls, ctxCount, callVars, lastPrefix, watcherVars,
                 wQueue, wPrefix, wCtx, wResult, wInflight, warmupCancellations,
                 handlerVars>>

\* CancelWarmup that does not record the cancellation
CancelWarmup_NoMetric(cancelled) ==
  IF ~warmupInProgress
    THEN /\ cancelled = FALSE
         /\ UNCHANGED <<cancelCalls, warmupCancellations>>
    ELSE /\ cancelled = TRUE
         /\ IF mWarmupCancelFunc # NilFunc
              THEN Invoke(mWarmupCancelFunc)
              ELSE UNCHANGED cancelCalls
         /\ UNCHANGED warmupCancellations

\* CancelWarmup, under warmupMu; cancelled is its return value
CancelWarmup(cancelled) ==
  IF ~warmupInProgress
    THEN /\ cancelled = FALSE
         /\ UNCHANGED <<cancelCalls, warmupCancellations>>
    ELSE /\ cancelled = TRUE
         /\ IF mWarmupCancelFunc # NilFunc
              THEN Invoke(mWarmupCancelFunc)
              ELSE UNCHANGED cancelCalls
         /\ warmupCancellations' =
              [warmupCancellations EXCEPT ![mWarmupPrefix] = @ + 1]

(***************************************************************************)
(* Proxy.handleChatCompletion (proxy.go), one instance per request r.      *)
(* hTrace[r] lists the calls the handler has made on the other components  *)
(* and on the backend, in order.                                           *)
(***************************************************************************)
Call(r, op, arg) == hTrace' = [hTrace EXCEPT ![r] = Append(@, <<op, arg>>)]

Goto(r, label) == hpc' = [hpc EXCEPT ![r] = label]

\* the body is read and parsed, the last user message is found and, when it
\* starts with a configured prefix and a space, the template is processed.
\*   "malformed": unreadable body, bad JSON, no messages array, or content
\*                that is not a string: 400
\*   "template_error": ProcessTemplate fails: 500
\* These statements touch nothing but the request.
Parse(r) ==
  \E outcome \in {"malformed", "template_error", "ok"}, p \in Prefixes \cup {""} :
    CASE outcome = "malformed" ->
           /\ p = ""
           /\ hStatus' = [hStatus EXCEPT ![r] = 400]
           /\ Goto(r, "done")
           /\ UNCHANGED hPrefix
      [] outcome = "template_error" ->
           /\ p = ""
           /\ hStatus' = [hStatus EXCEPT ![r] = 500]
           /\ Goto(r, "done")
           /\ UNCHANGED hPrefix
      [] OTHER ->
           /\ hPrefix' = [hPrefix EXCEPT ![r] = p]
           /\ Goto(r, "shouldSave")
           /\ UNCHANGED hStatus

\* the request arrives; p.warmupManager.IsWarmupInProgress(); without a
\* warmup in progress the handler goes on to read the body
HandleIsWarmupInProgress(r) ==
  /\ hpc[r] = "idle"
  /\ IF warmupInProgress
       THEN Goto(r, "cancel") /\ UNCHANGED <<hPrefix, hStatus>>
       ELSE Parse(r)
  /\ UNCHANGED <<trackVars, lifeVars, checkVars, pureVars, extVars,
                 admVars, cancelCalls, ctxCount, callVars, lastPrefix, watcherVars,
                 workerVars, legacyVars, hInflight, hTrace, hChunks>>

\* GetWarmupPrefix (for the log line) and CancelWarmup; then the body is read
HandleCancelWarmup(r) ==
  /\ hpc[r] = "cancel"
  /\ \E cancelled \in BOOLEAN :
       /\ CancelWarmup(cancelled)
       /\ IF cancelled THEN Call(r, "CancelWarmup", "") ELSE UNCHANGED hTrace
  /\ Parse(r)
  /\ UNCHANGED <<trackVars, lifeVars, checkVars, pureVars, extVars,
                 admVars, ctxCount, callVars, lastPrefix, watcherVars, workerVars,
                 warmupInProgress, mWarmupPrefix, mWarmupCancelFunc,
                 hInflight, hChunks>>

\* a handler that never saves the old cache
HandleShouldSave_NeverSave(r) ==
  /\ hpc[r] = "shouldSave"
  /\ Goto(r, "shouldRestore")
  /\ UNCHANGED <<trackVars, lifeVars, checkVars, pureVars, extVars,
                 admVars, cancelCalls, ctxCount, callVars, lastPrefix, watcherVars,
                 workerVars, legacyVars, hPrefix, hInflight, hTrace, hStatus, hChunks>>

\* p.backendState.ShouldSave(requestPrefix)
HandleShouldSave(r) ==
  /\ hpc[r] = "shouldSave"
  /\ Goto(r, IF ShouldSave(hPrefix[r]) THEN "getLast" ELSE "shouldRestore")
  /\ UNCHANGED <<trackVars, lifeVars, checkVars, pureVars, extVars,
                 admVars, cancelCalls, ctxCount, callVars, lastPrefix, watcherVars,
                 workerVars, legacyVars, hPrefix, hInflight, hTrace, hStatus, hChunks>>

\* GetLastPrefix, and the save request for that prefix is sent
HandleSave(r) ==
  /\ hpc[r] = "getLast"
  /\ hInflight' = [hInflight EXCEPT ![r] = [op |-> "save", prefix |-> lastPrefix]]
  /\ Call(r, "save", lastPrefix)
  /\ Goto(r, "saving")
  /\ UNCHANGED <<trackVars, lifeVars, checkVars, pureVars, extVars,
                 admVars, cancelCalls, ctxCount, callVars, lastPrefix, watcherVars,
                 workerVars, legacyVars, hPrefix, hStatus, hChunks>>

\* saveKVCache returns (an error is only logged)
handleSaveReturn(r) ==
  /\ hpc[r] = "saving"
  /\ hInflight' = [hInflight EXCEPT ![r] = NoCall]
  /\ Goto(r, "shouldRestore")
  /\ UNCHANGED <<trackVars, lifeVars, checkVars, pureVars, pairVars, warmedVars, metricsVars,
                 admVars, cancelCalls, ctxCount, callVars, lastPrefix, watcherVars,
                 workerVars, legacyVars, hPrefix, hTrace, hStatus, hChunks>>

\* handleSaveReturn where the contents of slot 0 and of the cache files are not followed
HandleSaveReturn(r) == handleSaveReturn(r) /\ UNCHANGED slotVars

\* ShouldRestore(requestPrefix); the restore request is sent
HandleRestore(r) ==
  /\ hpc[r] = "shouldRestore"
  /\ IF ShouldRestore(hPrefix[r])
       THEN /\ hInflight' = [hInflight EXCEPT ![r] = [op |-> "restore", prefix |-> hPrefix[r]]]
            /\ Call(r, "restore", hPrefix[r])
            /\ Goto(r, "restoring")
       ELSE /\ Goto(r, "forward")
            /\ UNCHANGED <<hInflight, hTrace>>
  /\ UNCHANGED <<trackVars, lifeVars, checkVars, pureVars, extVars,
                 admVars, cancelCalls, ctxCount, callVars, lastPrefix, watcherVars,
                 workerVars, legacyVars, hPrefix, hStatus, hChunks>>

\* a handler that gives the request up with 502 when the restore failed
handleRestoreReturn_Abort(r) ==
  /\ hpc[r] = "restoring"
  /\ hInflight' = [hInflight EXCEPT ![r] = NoCall]
  /\ \E failed \in BOOLEAN :
       IF failed
         THEN Goto(r, "done") /\ hStatus' = [hStatus EXCEPT ![r] = 502]
         ELSE Goto(r, "forward") /\ UNCHANGED hStatus
  /\ UNCHANGED <<trackVars, lifeVars, checkVars, pureVars, pairVars, warmedVars, metricsVars,
                 admVars, cancelCalls, ctxCount, callVars, lastPrefix, watcherVars,
                 workerVars, legacyVars, hPrefix, hTrace, hChunks>>

\* restoreKVCache returns (an error, 404 included, is only logged)
handleRestoreReturn(r) ==
  /\ hpc[r] = "restoring"
  /\ hInflight' = [hInflight EXCEPT ![r] = NoCall]
  /\ Goto(r, "forward")
  /\ UNCHANGED <<trackVars, lifeVars, checkVars, pureVars, pairVars, warmedVars, metricsVars,
                 admVars, cancelCalls, ctxCount, callVars, lastPrefix, watcherVars,
                 workerVars, legacyVars, hPrefix, hTrace, hStatus, hChunks>>

\* handleRestoreReturn where the contents of slot 0 and of the cache files are not followed
HandleRestoreReturn(r) == handleRestoreReturn(r) /\ UNCHANGED slotVars

\* the request is marshalled again and sent: http.DefaultClient.Do(proxyReq)
HandleForward(r) ==
  /\ hpc[r] = "forward"
  /\ hInflight' = [hInflight EXCEPT ![r] = [op |-> "chat", prefix |-> hPrefix[r]]]
  /\ Call(r, "forward", hPrefix[r])
  /\ Goto(r, "forwarding")
  /\ UNCHANGED <<trackVars, lifeVars, checkVars, pureVars, extVars,
                 admVars, cancelCalls, ctxCount, callVars, lastPrefix, watcherVars,
                 workerVars, legacyVars, hPrefix, hStatus, hChunks>>

\* a handler that records the prefix of a request whose forward failed
HandleForwardErr_Update(r) ==
  /\ hpc[r] = "forwarding"
  /\ hInflight' = [hInflight EXCEPT ![r] = NoCall]
  /\ hStatus' = [hStatus EXCEPT ![r] = 502]
  /\ UpdatePrefix(hPrefix[r])
  /\ Goto(r, "done")
  /\ UNCHANGED <<trackVars, lifeVars, checkVars, pureVars, extVars,
                 admVars, cancelCalls, ctxCount, callVars, watcherVars,
                 workerVars, legacyVars, hPrefix, hTrace, hChunks>>

\* Do fails: 502
HandleForwardErr(r) ==
  /\ hpc[r] = "forwarding"
  /\ hInflight' = [hInflight EXCEPT ![r] = NoCall]
  /\ hStatus' = [hStatus EXCEPT ![r] = 502]
  /\ Goto(r, "done")
  /\ UNCHANGED <<trackVars, lifeVars, checkVars, pureVars, extVars,
                 admVars, cancelCalls, ctxCount, callVars, lastPrefix, watcherVars,
                 workerVars, legacyVars, hPrefix, hTrace, hChunks>>

\* the backend's status and headers arrive (Do returns): then
\* UpdatePrefix(requestPrefix), the headers are copied and the status is
\* written to the client
handleResponse(r) ==
  /\ hpc[r] = "forwarding"
  /\ hStatus' = [hStatus EXCEPT ![r] = 200]
  /\ UpdatePrefix(hPrefix[r])
  /\ hTrace' = [hTrace EXCEPT ![r] =
                  @ \o << <<"Do returns", "">>, <<"UpdatePrefix", hPrefix[r]>>,
                          <<"WriteHeader", "">> >>]
  /\ Goto(r, "stream")
  /\ UNCHANGED <<trackVars, lifeVars, checkVars, pureVars, pairVars, warmedVars, metricsVars,
                 admVars, cancelCalls, ctxCount, callVars, watcherVars,
                 workerVars, legacyVars, hPrefix, hInflight, hChunks>>

\* a handler that leaves the tracker as it is when the backend has answered
HandleResponse_NoUpdate(r) ==
  /\ hpc[r] = "forwarding"
  /\ hStatus' = [hStatus EXCEPT ![r] = 200]
  /\ UNCHANGED lastPrefix
  /\ hTrace' = [hTrace EXCEPT ![r] =
                  @ \o << <<"Do returns", "">>, <<"WriteHeader", "">> >>]
  /\ Goto(r, "stream")
  /\ UNCHANGED <<trackVars, lifeVars, checkVars, pureVars, extVars,
                 admVars, cancelCalls, ctxCount, callVars, watcherVars,
                 workerVars, legacyVars, hPrefix, hInflight, hChunks>>

\* handleResponse where the contents of slot 0 and of the cache files are not followed
HandleResponse(r) == handleResponse(r) /\ UNCHANGED slotVars

\* a copy loop that writes what it reads and leaves the flushing to the server
HandleStreamChunk_NoFlush(r) ==
  /\ hpc[r] = "stream"
  /\ hChunks[r] < MaxChunks
  /\ hChunks' = [hChunks EXCEPT ![r] = @ + 1]
  /\ hTrace' = [hTrace EXCEPT ![r] = @ \o << <<"Read", "chunk">>, <<"Write", "">> >>]
  /\ UNCHANGED <<trackVars, lifeVars, checkVars, pureVars, extVars,
                 admVars, cancelCalls, ctxCount, callVars, lastPrefix, watcherVars,
                 workerVars, legacyVars, hpc, hPrefix, hInflight, hStatus>>

\* one round of the copy loop: resp.Body.Read returns the next chunk of the
\* backend, it is written to the client and flushed
HandleStreamChunk(r) ==
  /\ hpc[r] = "stream"
  /\ hChunks[r] < MaxChunks
  /\ hChunks' = [hChunks EXCEPT ![r] = @ + 1]
  /\ hTrace' = [hTrace EXCEPT ![r] =
                  @ \o << <<"Read", "chunk">>, <<"Write", "">>, <<"Flush", "">> >>]
  /\ UNCHANGED <<trackVars, lifeVars, checkVars, pureVars, extVars,
                 admVars, cancelCalls, ctxCount, callVars, lastPrefix, watcherVars,
                 workerVars, legacyVars, hpc, hPrefix, hInflight, hStatus>>

\* the copy loop ends: Read returns io.EOF or another error with no data, or
\* it returns a chunk and the write to the client fails; the deferred
\* resp.Body.Close() runs
HandleStreamEnd(r) ==
  /\ hpc[r] = "stream"
  /\ \E end \in {"EOF", "read error", "write error"} :
       IF end = "write error"
         THEN /\ hChunks[r] < MaxChunks
              /\ hTrace' = [hTrace EXCEPT ![r] =
                   @ \o << <<"Read", "chunk">>, <<"Write", "failed">>, <<"Close", "">> >>]
         ELSE hTrace' = [hTrace EXCEPT ![r] = @ \o << <<"Read", end>>, <<"Close", "">> >>]
  /\ hInflight' = [hInflight EXCEPT ![r] = NoCall]
  /\ Goto(r, "done")
  /\ UNCHANGED <<trackVars, lifeVars, checkVars, pureVars, extVars,
                 admVars, cancelCalls, ctxCount, callVars, lastPrefix, watcherVars,
                 workerVars, legacyVars, hPrefix, hStatus, hChunks>>

(***************************************************************************)
(* Proxy.Start: the routes. A request whose path is not                    *)
(* /v1/chat/completions is served by the "/" handler, which hands it to    *)
(* the httputil.ReverseProxy.                                              *)
(***************************************************************************)
OtherPaths == {"/health", "/v1/completions"}

HandlePassthrough_CancelWarmup(r) ==
  /\ hpc[r] = "idle"
  /\ \E path \in OtherPaths : Call(r, "reverseProxy", path)
  /\ IF warmupInProgress
       THEN CancelWarmup(TRUE)
       ELSE UNCHANGED <<cancelCalls, warmupCancellations>>
  /\ hInflight' = [hInflight EXCEPT ![r] = [op |-> "proxy", prefix |-> ""]]
  /\ Goto(r, "proxying")
  /\ UNCHANGED <<trackVars, lifeVars, checkVars, pureVars, extVars, admVars, ctxCount,
                 callVars, lastPrefix, watcherVars, workerVars,
                 warmupInProgress, mWarmupPrefix, mWarmupCancelFunc,
                 hPrefix, hStatus, hChunks>>

\* p.reverseProxy.ServeHTTP(w, r): the request is sent to the backend
HandlePassthrough(r) ==
  /\ hpc[r] = "idle"
  /\ \E path \in OtherPaths : Call(r, "reverseProxy", path)
  /\ hInflight' = [hInflight EXCEPT ![r] = [op |-> "proxy", prefix |-> ""]]
  /\ Goto(r, "proxying")
  /\ UNCHANGED <<trackVars, lifeVars, checkVars, pureVars, extVars,
                 admVars, cancelCalls, ctxCount,
                 callVars, lastPrefix, watcherVars, workerVars, legacyVars,
                 hPrefix, hStatus, hChunks>>

\* the reverse proxy relays the backend's response (ModifyResponse), or its
\* ErrorHandler answers 502
HandlePassthroughReturn(r) ==
  /\ hpc[r] = "proxying"
  /\ \E status \in {200, 502} : hStatus' = [hStatus EXCEPT ![r] = status]
  /\ hInflight' = [hInflight EXCEPT ![r] = NoCall]
  /\ Goto(r, "done")
  /\ UNCHANGED <<trackVars, lifeVars, checkVars, pureVars, extVars,
                 admVars, cancelCalls, ctxCount,
                 callVars, lastPrefix, watcherVars, workerVars, legacyVars,
                 hPrefix, hTrace, hChunks>>

(***************************************************************************)
(* SpecProxy: chat-completion requests, requests for other paths and the   *)
(* manager.go worker.                                                      *)
(***************************************************************************)
NextProxy ==
  \/ CheckAndWarmup
  \/ TickDone
  \/ ManagerWarmupStart
  \/ WarmupShouldSave
  \/ WarmupSave
  \/ WarmupSaveReturn
  \/ WarmupRestore
  \/ WarmupRestoreReturn
  \/ WarmupProcess
  \/ WarmupSend
  \/ WarmupCompletionOK
  \/ WarmupCompletionErr
  \/ WarmupUpdate
  \/ ManagerWarmupEnd
  \/ WarmupReturn
  \/ \E r \in Requests : HandleIsWarmupInProgress(r)
  \/ \E r \in Requests : HandleCancelWarmup(r)
  \/ \E r \in Requests : HandleShouldSave(r)
  \/ \E r \in Requests : HandleSave(r)
  \/ \E r \in Requests : HandleSaveReturn(r)
  \/ \E r \in Requests : HandleRestore(r)
  \/ \E r \in Requests : HandleRestoreReturn(r)
  \/ \E r \in Requests : HandleForward(r)
  \/ \E r \in Requests : HandleForwardErr(r)
  \/ \E r \in Requests : HandleResponse(r)
  \/ \E r \in Requests : HandleStreamChunk(r)
  \/ \E r \in Requests : HandleStreamEnd(r)
  \/ \E r \in Requests : HandlePassthrough(r)
  \/ \E r \in Requests : HandlePassthroughReturn(r)

SpecProxy == Init /\ [][NextProxy]_vars

(***************************************************************************)
(* SpecState: state.State used by one caller at a time, the way every      *)
(* request and every warmup uses it: ShouldSave and ShouldRestore for the  *)
(* prefix, then UpdatePrefix.                                              *)
(***************************************************************************)
\* a request's prefix: a configured prefix, or none
AnyPrefix == Prefixes \cup {""}

\* s.ShouldSave(newPrefix), nothing else
CallShouldSave ==
  /\ \E newPrefix \in AnyPrefix :
       trackerCall' = [op |-> "ShouldSave", arg |-> newPrefix,
                       before |-> lastPrefix, ret |-> <<ShouldSave(newPrefix)>>]
  /\ UNCHANGED <<admVars, cancelCalls, ctxCount, callVars, lastPrefix, watcherVars,
                 workerVars, legacyVars, handlerVars, fed, trues>>
  /\ UNCHANGED <<lifeVars, checkVars, pureVars, extVars>>

\* s.ShouldRestore(newPrefix), nothing else
CallShouldRestore ==
  /\ \E newPrefix \in AnyPrefix :
       trackerCall' = [op |-> "ShouldRestore", arg |-> newPrefix,
                       before |-> lastPrefix, ret |-> <<ShouldRestore(newPrefix)>>]
  /\ UNCHANGED <<admVars, cancelCalls, ctxCount, callVars, lastPrefix, watcherVars,
                 workerVars, legacyVars, handlerVars, fed, trues>>
  /\ UNCHANGED <<lifeVars, checkVars, pureVars, extVars>>

\* one step of a sequence of queries: ShouldSave(prefix), ShouldRestore(prefix),
\* UpdatePrefix(prefix)
SwitchTo ==
  /\ Len(fed) < MaxSeq
  /\ \E prefix \in AnyPrefix :
       /\ trackerCall' = [op |-> "UpdatePrefix", arg |-> prefix, before |-> lastPrefix,
                          ret |-> <<ShouldSave(prefix), ShouldRestore(prefix)>>]
       /\ trues' = trues + (IF ShouldSave(prefix) THEN 1 ELSE 0)
                         + (IF ShouldRestore(prefix) THEN 1 ELSE 0)
       /\ UpdatePrefix(prefix)
       /\ fed' = Append(fed, prefix)
  /\ UNCHANGED <<admVars, cancelCalls, ctxCount, callVars, watcherVars,
                 workerVars, legacyVars, handlerVars>>
  /\ UNCHANGED <<lifeVars, checkVars, pureVars, extVars>>

NextState ==
  \/ CallShouldSave
  \/ CallShouldRestore
  \/ SwitchTo

SpecState == Init /\ [][NextState]_vars

(***************************************************************************)
(* warmup.Manager (watcher.go): Start, Stop and the checkLoop goroutine.   *)
(* One goroutine calls Start and Stop, one call after the other.           *)
(***************************************************************************)
\* everything but the lifecycle variables and the worker's position
LifeFrame ==
  UNCHANGED <<admVars, cancelCalls, ctxCount, callVars, lastPrefix, watcherVars,
              wQueue, wPrefix, wCtx, wResult, wInflight,
              legacyVars, handlerVars, trackVars, checkVars, pureVars, extVars>>

\* a panic ends the process: no goroutine takes another step
Panic ==
  /\ mpc' = "panic"
  /\ lpc' = "panic"
  /\ wpc' = "panic"

Start_Relaunch ==
  /\ mpc = "idle"
  /\ lifeCalls < MaxCalls
  /\ lifeCalls' = lifeCalls + 1
  /\ running' = TRUE
  /\ lpc' = "start"
  /\ launched' = launched + 1
  /\ checks' = 0
  /\ intervals' = 0
  /\ received' = 0
  /\ ticker' = "none"
  /\ lifeCall' = [op |-> "Start", ret |-> IF running THEN "error" ELSE "nil",
                  wasRunning |-> running]
  /\ UNCHANGED <<stopCh, doneCh, mpc, wpc>>
  /\ LifeFrame

\* Manager.Start, all of it under m.mu
Start ==
  /\ mpc = "idle"
  /\ lifeCalls < MaxCalls
  /\ lifeCalls' = lifeCalls + 1
  /\ IF running
       THEN /\ lifeCall' = [op |-> "Start", ret |-> "error", wasRunning |-> TRUE]
            /\ UNCHANGED <<running, lpc, launched, checks, intervals, received, ticker>>
       ELSE /\ running' = TRUE
            \* go m.checkLoop()
            /\ lpc' = "start"
            /\ launched' = launched + 1
            /\ checks' = 0
            /\ intervals' = 0
            /\ received' = 0
            /\ ticker' = "none"
            /\ lifeCall' = [op |-> "Start", ret |-> "nil", wasRunning |-> FALSE]
  /\ UNCHANGED <<stopCh, doneCh, mpc, wpc>>
  /\ LifeFrame

\* Manager.Stop, the part under m.mu
StopLocked ==
  /\ mpc = "idle"
  /\ lifeCalls < MaxCalls
  /\ lifeCalls' = lifeCalls + 1
  /\ IF ~running
       THEN /\ lifeCall' = [op |-> "Stop", ret |-> "void", wasRunning |-> FALSE]
            /\ UNCHANGED <<running, mpc>>
       ELSE /\ running' = FALSE
            /\ mpc' = "close"
            /\ UNCHANGED lifeCall
  /\ UNCHANGED <<stopCh, doneCh, lpc, ticker, checks, intervals, received, launched, wpc>>
  /\ LifeFrame

\* close(m.stopCh); closing a closed channel panics
StopClose ==
  /\ mpc = "close"
  /\ IF stopCh = "closed"
       THEN Panic /\ UNCHANGED stopCh
       ELSE stopCh' = "closed" /\ mpc' = "wait" /\ UNCHANGED <<lpc, wpc>>
  /\ UNCHANGED <<running, doneCh, ticker, lifeCall, checks, intervals, received,
                 launched, lifeCalls>>
  /\ LifeFrame

StopWait_NoWait ==
  /\ mpc = "wait"
  /\ mpc' = "idle"
  /\ lifeCall' = [op |-> "Stop", ret |-> "void", wasRunning |-> TRUE]
  /\ UNCHANGED <<running, stopCh, doneCh, lpc, ticker, checks, intervals, received,
                 launched, lifeCalls, wpc>>
  /\ LifeFrame

\* <-m.doneCh, and Stop returns
StopWait ==
  /\ mpc = "wait"
  /\ doneCh = "closed"
  /\ mpc' = "idle"
  /\ lifeCall' = [op |-> "Stop", ret |-> "void", wasRunning |-> TRUE]
  /\ UNCHANGED <<running, stopCh, doneCh, lpc, ticker, checks, intervals, received,
                 launched, lifeCalls, wpc>>
  /\ LifeFrame

LoopInitialCheck_WaitFirst ==
  /\ lpc = "start"
  /\ lpc' = "select"
  /\ ticker' = "idle"
  /\ UNCHANGED <<running, stopCh, doneCh, mpc, lifeCall, checks, intervals, received,
                 launched, lifeCalls, wpc>>
  /\ LifeFrame

\* checkLoop: the call of checkAndWarmup before the ticker is created
LoopInitialCheck ==
  /\ lpc = "start"
  /\ \E unreadable \in SUBSET Prefixes : \E changed \in ChangedLists :
       checkAndWarmup(changed, unreadable)
  /\ lpc' = "check"
  /\ checks' = checks + 1
  /\ UNCHANGED <<running, stopCh, doneCh, ticker, mpc, lifeCall, intervals, received,
                 launched, lifeCalls>>
  /\ UNCHANGED checkVars

\* checkAndWarmup returns to checkLoop; after the first call, time.NewTicker
LoopCheckReturn ==
  /\ lpc = "check"
  /\ checkAndWarmupReturn
  /\ lpc' = "select"
  /\ ticker' = IF ticker = "none" THEN "idle" ELSE ticker
  /\ UNCHANGED <<running, stopCh, doneCh, mpc, lifeCall, checks, intervals, received,
                 launched, lifeCalls>>

\* one interval elapses: the ticker sends on its channel of capacity one
Tick ==
  /\ ticker \in {"idle", "ready"}
  /\ intervals < MaxTicks
  /\ intervals' = intervals + 1
  /\ ticker' = "ready"
  /\ UNCHANGED <<running, stopCh, doneCh, lpc, mpc, lifeCall, checks, received,
                 launched, lifeCalls, wpc>>
  /\ LifeFrame

\* select: case <-ticker.C
LoopTick ==
  /\ lpc = "select"
  /\ ticker = "ready"
  /\ ticker' = "idle"
  /\ received' = received + 1
  /\ \E unreadable \in SUBSET Prefixes : \E changed \in ChangedLists :
       checkAndWarmup(changed, unreadable)
  /\ lpc' = "check"
  /\ checks' = checks + 1
  /\ UNCHANGED <<running, stopCh, doneCh, mpc, lifeCall, intervals, launched, lifeCalls>>
  /\ UNCHANGED checkVars

\* select: case <-m.stopCh
LoopStop ==
  /\ lpc = "select"
  /\ stopCh = "closed"
  /\ lpc' = "return"
  /\ UNCHANGED <<running, stopCh, doneCh, ticker, mpc, lifeCall, checks, intervals,
                 received, launched, lifeCalls, wpc>>
  /\ LifeFrame

\* the deferred calls of checkLoop: ticker.Stop() and close(m.doneCh)
LoopReturn ==
  /\ lpc = "return"
  /\ ticker' = "stopped"
  /\ IF doneCh = "closed"
       THEN Panic /\ UNCHANGED doneCh
       ELSE doneCh' = "closed" /\ lpc' = "exited" /\ UNCHANGED <<mpc, wpc>>
  /\ UNCHANGED <<running, stopCh, lifeCall, checks, intervals, received, launched,
                 lifeCalls>>
  /\ LifeFrame

NextLifecycle ==
  \/ Start
  \/ StopLocked
  \/ StopClose
  \/ StopWait
  \/ LoopInitialCheck
  \/ LoopCheckReturn
  \/ Tick
  \/ LoopTick
  \/ LoopStop
  \/ LoopReturn
  \/ WarmupAcquire
  \/ WarmupShouldSave
  \/ WarmupSave
  \/ WarmupSaveReturn
  \/ WarmupRestore
  \/ WarmupRestoreReturn
  \/ WarmupProcess
  \/ WarmupSend
  \/ WarmupCompletionOK
  \/ WarmupCompletionErr
  \/ WarmupUpdate
  \/ WarmupRelease
  \/ WarmupReturn
  \/ EditFile

SpecLifecycle == Init /\ [][NextLifecycle]_vars

(***************************************************************************)
(* Properties of the admission record (checked under Spec)                 *)
(***************************************************************************)

\* C1: after any sequence of Controller calls, the state is IDLE if and only
\* if userQueryCount is 0 and no warmup cancel handle is stored.
C1_IdleIffEmpty ==
  (currentState = IDLE) <=> (userQueryCount = 0 /\ warmupCancelFunc = NilFunc)

\* the record is back in IDLE after a warmup was acquired and released
C1_Witness ==
  /\ lastOp = "ReleaseWarmup"
  /\ pre.state = WARMUP_QUERY
  /\ currentState = IDLE

\* C2: whenever the state is USER_QUERY, userQueryCount is at least 1 and no
\* warmup cancel handle is stored.
C2_UserQueryShape ==
  currentState = USER_QUERY => (userQueryCount >= 1 /\ warmupCancelFunc = NilFunc)

\* USER_QUERY was entered by pre-empting a warmup that had stored a handle
C2_Witness ==
  /\ lastOp = "AcquireUserQuery"
  /\ pre.state = WARMUP_QUERY
  /\ pre.cancel # NilFunc
  /\ currentState = USER_QUERY

\* C3: whenever the state is WARMUP_QUERY, userQueryCount is 0 and a warmup
\* cancel handle is stored.
C3_WarmupQueryShape ==
  currentState = WARMUP_QUERY => (userQueryCount = 0 /\ warmupCancelFunc # NilFunc)

\* a warmup is admitted after user queries came and went, and one was refused
C3_Witness ==
  /\ currentState = WARMUP_QUERY
  /\ ctxCount >= 2
  /\ lastOp = "AcquireWarmup"
  /\ ret = "true"

\* C4: AcquireUserQuery returns true from every state, is never blocked by the
\* state of the record, and leaves the record in USER_QUERY.
C4_AcquireUserAlwaysAdmits ==
  /\ ENABLED AcquireUserQuery
  /\ lastOp = "AcquireUserQuery" => (ret = "true" /\ currentState = USER_QUERY)

\* AcquireUserQuery was called while a warmup held the slot
C4_Witness ==
  /\ lastOp = "AcquireUserQuery"
  /\ pre.state = WARMUP_QUERY
  /\ ret = "true"

\* C5: AcquireWarmup returns true exactly when the state at the call is IDLE;
\* a refused call leaves state, count, handle and prefix unchanged.
C5_AcquireWarmupOnlyIdle ==
  lastOp = "AcquireWarmup" =>
    /\ (ret = "true") <=> (pre.state = IDLE)
    /\ ret = "false" => Controller = pre

\* AcquireWarmup was refused while another warmup held the slot
C5_Witness ==
  /\ lastOp = "AcquireWarmup"
  /\ ret = "false"
  /\ pre.state = WARMUP_QUERY
  /\ pre.prefix # ""

\* C10: ReleaseUserQuery in USER_QUERY decrements userQueryCount and moves to
\* IDLE exactly when the count reaches 0.
C10_ReleaseCountsDown ==
  (lastOp = "ReleaseUserQuery" /\ pre.state = USER_QUERY) =>
    /\ userQueryCount = pre.count - 1
    /\ (currentState = IDLE) <=> (userQueryCount = 0)
    /\ (currentState = USER_QUERY) <=> (userQueryCount >= 1)

\* one of several admitted user queries was released: the state stays USER_QUERY
C10_Witness ==
  /\ lastOp = "ReleaseUserQuery"
  /\ pre.state = USER_QUERY
  /\ pre.count >= 2
  /\ currentState = USER_QUERY

(***************************************************************************)
(* Pre-emption of a warmup (checked under SpecWarmup)                      *)
(***************************************************************************)

\* C6: when AcquireUserQuery is called in WARMUP_QUERY, the stored cancel
\* handle is invoked exactly once in the very step that sets USER_QUERY with
\* count 1 and clears the handle: WARMUP_QUERY is never seen with a handle
\* that was already invoked, no step leaves WARMUP_QUERY for USER_QUERY
\* without the invocation, and a handle is invoked in no other step.
C6_CancelInsideTransition ==
  [][ /\ currentState' = WARMUP_QUERY => cancelCalls'[warmupCancelFunc'] = 0
      /\ (currentState = WARMUP_QUERY /\ currentState' = USER_QUERY) =>
           /\ cancelCalls'[warmupCancelFunc] = 1
           /\ userQueryCount' = 1
           /\ warmupCancelFunc' = NilFunc
      /\ \A h \in Handles :
           cancelCalls'[h] > cancelCalls[h] =>
             /\ currentState = WARMUP_QUERY
             /\ warmupCancelFunc = h
             /\ currentState' = USER_QUERY
    ]_vars

\* a user request has just pre-empted a warmup whose completion is pending
C6_Witness ==
  /\ lastOp = "AcquireUserQuery"
  /\ pre.state = WARMUP_QUERY
  /\ cancelCalls[pre.cancel] = 1
  /\ currentState = USER_QUERY
  /\ wpc = "completing"

\* C7: once a user request's AcquireUserQuery has pre-empted a warmup, that
\* warmup has no save, restore or completion call in flight and issues none
\* afterwards.
C7_NoWarmupCallAfterPreempt ==
  (wCtx # NilFunc /\ cancelCalls[wCtx] > 0) => wInflight = NoCall

(***************************************************************************)
(* The chat-completion handler (checked under SpecProxy)                   *)
(***************************************************************************)
BackendCalls == {"save", "restore", "forward"}

\* the positions of trace t at which op was called
Calls(t, op) == {i \in 1..Len(t) : t[i][1] = op}

\* C8: in every chat-completion request, AcquireUserQuery is called before
\* the request makes any backend call (cache save, cache restore, forward).
C8_AcquireBeforeBackendCall ==
  \A r \in Requests :
    \A i \in 1..Len(hTrace[r]) :
      hTrace[r][i][1] \in BackendCalls =>
        \E j \in 1..(i - 1) : hTrace[r][j][1] = "AcquireUserQuery"

\* C9: when the handler returns, on every exit path, it has called
\* ReleaseUserQuery exactly once.
C9_ReleaseOnceOnReturn ==
  \A r \in Requests :
    hpc[r] = "done" => Cardinality(Calls(hTrace[r], "ReleaseUserQuery")) = 1

(***************************************************************************)
(* The warmup attempt and the slot (checked under SpecWarmup)              *)
(***************************************************************************)

\* C11: ReleaseWarmup called while the state is IDLE or USER_QUERY changes
\* nothing in the admission record; in particular the late ReleaseWarmup of
\* a pre-empted warmup leaves userQueryCount and the USER_QUERY state of the
\* user requests as they are.
C11_LateReleaseIsNoOp ==
  (lastOp = "ReleaseWarmup" /\ pre.state # WARMUP_QUERY) => Controller = pre

\* the pre-empted warmup has released while the pre-empting user still holds
\* the slot
C11_Witness ==
  /\ lastOp = "ReleaseWarmup"
  /\ pre.state = USER_QUERY
  /\ wResult = "warmup cancelled"
  /\ wpc = "deferCancel"
  /\ currentState = USER_QUERY
  /\ userQueryCount >= 1

\* C12: a warmup attempt whose AcquireWarmup succeeded calls ReleaseWarmup
\* before it returns, on every path: the attempt reaches its return either
\* straight from a refused AcquireWarmup or by the ReleaseWarmup call, and
\* whenever the worker is outside an attempt the state is not WARMUP_QUERY.
C12_ReleaseBeforeReturn ==
  [][ /\ (wpc # "deferCancel" /\ wpc' = "deferCancel") =>
           IF wpc = "next"
             THEN lastOp' = "AcquireWarmup" /\ ret' = "false"
             ELSE lastOp' = "ReleaseWarmup" /\ pre'.state = currentState
      /\ wpc' \in {"wait", "next", "deferCancel"} => currentState' # WARMUP_QUERY
    ]_vars

\* an attempt that failed on its template has returned
C12_Witness ==
  /\ wpc = "next"
  /\ wResult = "template_error"
  /\ lastOp = "ReleaseWarmup"
  /\ pre.state = WARMUP_QUERY
  /\ currentState = IDLE

\* the error kinds for which warmupTemplate calls RecordWarmupError before it
\* returns
WarmupErrorKinds == {"template_error", "completion_failed"}

\* C13: once a user request has cancelled a warmup attempt, the attempt
\* returns without updating lastPrefix, without recording a warmup error and
\* without the template being marked warmed: NeedsWarmup of its prefix is
\* still set when it has returned.
C13_CancelledAttemptLeavesNoTrace ==
  [][ (wCtx # NilFunc /\ cancelCalls[wCtx] > 0) =>
        /\ lastPrefix' = lastPrefix
        /\ wResult' \in WarmupErrorKinds => wResult' = wResult
        /\ needsWarmup'[wPrefix]
    ]_vars

\* the elements of sequence q
Range(q) == {q[i] : i \in 1..Len(q)}

C15_ShouldSaveShouldRestore ==
  /\ trackerCall.op = "ShouldSave" =>
       /\ trackerCall.ret =
            << trackerCall.before # "" /\ trackerCall.before # trackerCall.arg >>
       /\ lastPrefix = trackerCall.before
  /\ trackerCall.op = "ShouldRestore" =>
       /\ trackerCall.ret =
            << trackerCall.arg # "" /\ trackerCall.before # trackerCall.arg >>
       /\ lastPrefix = trackerCall.before

\* ShouldSave("") with a template loaded: the cache is saved before clearing
C15_Witness ==
  /\ trackerCall.op = "ShouldSave"
  /\ trackerCall.arg = ""
  /\ trackerCall.before = "@a"
  /\ trackerCall.ret = <<TRUE>>

\* C16: after UpdatePrefix(P), ShouldSave(P) and ShouldRestore(P) are both
\* false for every P, the empty prefix included; so a query that carries the
\* prefix already recorded as lastPrefix gets false from both.
C16_SamePrefixNoCacheIO ==
  trackerCall.op = "UpdatePrefix" =>
    /\ ~ShouldSave(trackerCall.arg)
    /\ ~ShouldRestore(trackerCall.arg)
    /\ trackerCall.arg = trackerCall.before => trackerCall.ret = <<FALSE, FALSE>>

\* the third query in a row with the same prefix
C16_Witness ==
  /\ trackerCall.op = "UpdatePrefix"
  /\ Len(fed) >= 3
  /\ fed[Len(fed)] = "@a"
  /\ fed[Len(fed) - 1] = "@a"
  /\ fed[Len(fed) - 2] = "@a"
  /\ trackerCall.ret = <<FALSE, FALSE>>

\* what a transition from prefix old to a different prefix new costs: a save
\* and a restore, less one for each of the two that is empty
TransitionCost(old, new) ==
  2 - (IF old = "" THEN 1 ELSE 0) - (IF new = "" THEN 1 ELSE 0)

\* the sum of the costs of the transitions of the sequence q that follows old
RECURSIVE TransitionsCost(_, _)
TransitionsCost(old, q) ==
  IF q = <<>> THEN 0
  ELSE (IF old # Head(q) THEN TransitionCost(old, Head(q)) ELSE 0)
         + TransitionsCost(Head(q), Tail(q))

\* C19: for every sequence of prefixes P1..Pn, each fed to a new tracker by
\* ShouldSave(Pi), ShouldRestore(Pi), UpdatePrefix(Pi), the number of true
\* results is twice the number of transitions between unequal consecutive
\* prefixes (the empty prefix of the new tracker precedes P1), minus one for
\* each transition from an empty prefix and one for each to an empty prefix.
C19_TruesCountTransitions ==
  trues = TransitionsCost("", fed)

\* a sequence with a first load, a switch, a clearing and a reload
C19_Witness ==
  /\ fed = <<"@a", "@b", "", "@a">>
  /\ trues = 5

(***************************************************************************)
(* Order of a request's steps (checked under SpecProxy)                    *)
(***************************************************************************)
\* the backend calls of trace t, in order
BackendTrace(t) == SelectSeq(t, LAMBDA e : e[1] \in BackendCalls)

\* the backend calls of trace t come in the order save, restore, forward,
\* each at most once
InOrder(t) ==
  \A i, j \in 1..Len(t) :
    (i < j /\ t[i][1] \in BackendCalls /\ t[j][1] \in BackendCalls) =>
      \/ t[i][1] = "save" /\ t[j][1] \in {"restore", "forward"}
      \/ t[i][1] = "restore" /\ t[j][1] = "forward"

\* C17: when a user request carries prefix B while lastPrefix is a different
\* non-empty prefix A, the backend observes, in this order: the save of A's
\* file, the restore of B's file, then the forwarded chat request (with the
\* content expanded from B's template).  Step by step: with lastPrefix = A,
\* the handler's ShouldSave step decides to save, its next step sends the
\* save of A, its ShouldRestore step sends the restore of B, and the step
\* after the restore forwards; and its backend calls never come in another
\* order.
C17_SaveRestoreForward ==
  [][ \A r \in Requests :
        /\ hTrace'[r] # hTrace[r] => InOrder(hTrace'[r])
        /\ \A A \in Prefixes :
             ( /\ hpc'[r] # hpc[r]
               /\ hPrefix[r] \in Prefixes \ {A}
               /\ lastPrefix = A ) =>
                 /\ hpc[r] = "shouldSave" => hpc'[r] = "getLast"
                 /\ hpc[r] = "getLast" =>
                      hTrace'[r] = Append(hTrace[r], <<"save", A>>)
                 /\ hpc[r] = "saving" => hpc'[r] = "shouldRestore"
                 /\ hpc[r] = "shouldRestore" =>
                      hTrace'[r] = Append(hTrace[r], <<"restore", hPrefix[r]>>)
                 /\ hpc[r] = "restoring" => hpc'[r] = "forward"
                 /\ hpc[r] = "forward" =>
                      hTrace'[r] = Append(hTrace[r], <<"forward", hPrefix[r]>>)
    ]_vars

\* a request for @b found @a loaded and has been forwarded
C17_Witness ==
  \E r \in Requests :
    /\ hpc[r] = "forwarding"
    /\ hPrefix[r] = "@b"
    /\ lastPrefix = "@a"
    /\ BackendTrace(hTrace[r]) =
         << <<"save", "@a">>, <<"restore", "@b">>, <<"forward", "@b">> >>

\* C18: for every forwarded chat request that the backend answers,
\* UpdatePrefix(requestPrefix) is called once, after the backend's status has
\* been received and before anything of the response (status line or body)
\* is written to the client; a request the backend did not answer does not
\* call it.
C18_UpdateBetweenStatusAndBody ==
  \A r \in Requests :
    LET t == hTrace[r] IN
      /\ \A i \in 1..Len(t) :
           /\ t[i][1] \in {"WriteHeader", "Write"} =>
                \E j \in 1..(i - 1) : t[j] = <<"UpdatePrefix", hPrefix[r]>>
           /\ t[i][1] = "UpdatePrefix" =>
                \E j \in 1..(i - 1) : t[j][1] = "Do returns"
           /\ t[i][1] = "Do returns" =>
                \E j \in 1..(i - 1) : t[j][1] = "forward"
      /\ Cardinality(Calls(t, "UpdatePrefix")) =
           Cardinality(Calls(t, "Do returns"))
      /\ Cardinality(Calls(t, "UpdatePrefix")) <= 1
      /\ (hpc[r] \in {"stream", "done"} /\ hStatus[r] = 200
            /\ Calls(t, "forward") # {}) =>
           Calls(t, "UpdatePrefix") # {}

\* a chunk of the body of an answered request has been written
C18_Witness ==
  \E r \in Requests :
    /\ hStatus[r] = 200
    /\ Calls(hTrace[r], "Write") # {}
    /\ Calls(hTrace[r], "UpdatePrefix") # {}
    /\ hPrefix[r] = "@a"

\* C20: when a user request pre-empts a warmup for prefix P whose completion
\* request is pending on the backend, the warmup-cancellation counter of P
\* is incremented, and the attempt records no warmup error.
C20_CancellationCountedNotError ==
  [][ /\ (wpc = "completing" /\ cancelCalls'[wCtx] > cancelCalls[wCtx]) =>
           warmupCancellations'[wPrefix] = warmupCancellations[wPrefix] + 1
      /\ (wCtx # NilFunc /\ wInflight.op = "completion" /\ cancelCalls[wCtx] > 0) =>
           wResult' \notin WarmupErrorKinds
    ]_vars

\* the pending completion of the warmup for @a has been cancelled
C20_Witness ==
  /\ wpc = "completing"
  /\ wPrefix = "@a"
  /\ wInflight = [op |-> "completion", prefix |-> "@a"]
  /\ cancelCalls[wCtx] = 1
  /\ warmupCancellations["@a"] = 1
  /\ \E r \in Requests : Calls(hTrace[r], "CancelWarmup") # {}

C22_StopWaitsForWorker ==
  [][ /\ (mpc = "wait" /\ mpc' = "idle") =>
           (lpc = "exited" /\ doneCh = "closed" /\ wpc = "wait" /\ wInflight = NoCall)
      /\ (mpc = "idle" /\ ~running) =>
           UNCHANGED <<workerVars, needsWarmup, processedHash, lastPrefix, admVars>>
      /\ (lifeCalls' # lifeCalls /\ lifeCall'.op = "Stop" /\ ~running) =>
           /\ mpc' = "idle"
           /\ UNCHANGED <<running, stopCh, doneCh, lpc, ticker, workerVars>>
    ]_vars

\* Stop has returned after a worker that had started a check, and a second
\* Stop has returned as well
C22_Witness ==
  /\ lifeCall = [op |-> "Stop", ret |-> "void", wasRunning |-> FALSE]
  /\ lifeCalls = 3
  /\ launched = 1
  /\ checks >= 1
  /\ lpc = "exited"

(***************************************************************************)
(* Order of the warmups of one tick (checked under SpecWarmup)             *)
(***************************************************************************)
\* the prefixes in ascending order of name
Ascending == <<"@a", "@b">>

Rank(p) == CHOOSE i \in 1..Len(Ascending) : Ascending[i] = p

\* C23: the prefixes that a tick still has to warm, which checkAndWarmup
\* takes one at a time from the front, are in ascending order of name.
C23_AscendingPrefixOrder ==
  \A i, j \in 1..Len(wQueue) : i < j => Rank(wQueue[i]) < Rank(wQueue[j])

(***************************************************************************)
(* SpecCheck: the worker, with what each CheckForChanges saw written down. *)
(***************************************************************************)
\* checkAndWarmup, remembering the files as CheckForChanges found them and
\* the list it returned
ObservedCheck ==
  /\ \E unreadable \in SUBSET Prefixes : \E changed \in ChangedLists :
       /\ checkAndWarmup(changed, unreadable)
       /\ lastCheck' = [done |-> TRUE, text |-> fileText, unreadable |-> unreadable,
                        changed |-> {changed[i] : i \in 1..Len(changed)}]
  /\ UNCHANGED lifeVars

NextCheck ==
  \/ ObservedCheck
  \/ TickDone
  \/ WarmupAcquire
  \/ WarmupShouldSave
  \/ WarmupSave
  \/ WarmupSaveReturn
  \/ WarmupRestore
  \/ WarmupRestoreReturn
  \/ WarmupProcess
  \/ WarmupSend
  \/ WarmupCompletionOK
  \/ WarmupCompletionErr
  \/ WarmupUpdate
  \/ WarmupRelease
  \/ WarmupReturn
  \/ EditFile

SpecCheck == Init /\ [][NextCheck]_vars

\* C24: a check made when no file has changed since the previous check (the
\* same texts, the same files readable) and every prefix the previous check
\* returned has been warmed and marked since, returns the empty list, and
\* so the tick has no prefix to warm and sends no warmup request.
C24_NoChangeNoReport ==
  [][ ( /\ wpc = "wait" /\ wpc' = "next"
        /\ lastCheck.done
        /\ lastCheck.text = fileText
        /\ lastCheck'.unreadable = lastCheck.unreadable
        /\ \A p \in lastCheck.changed : ~needsWarmup[p] )
      => wQueue' = <<>> ]_vars

(***************************************************************************)
(* template.ProcessTemplateString. A string is a sequence of tokens: the   *)
(* two-character tokens "<{" and "}>", the space, and words that contain   *)
(* neither brace.                                                          *)
(***************************************************************************)
OPEN == "<{"
CLOSE == "}>"
SPACE == " "
messagePlaceholder == <<"message">>

\* the tokens of the templates that are expanded
TemplateTokens == {OPEN, CLOSE, SPACE, "message", "f"}

Templates == UNION {[1..n -> TemplateTokens] : n \in 0..MaxLen}

UserMessages == {<<"hi">>, <<OPEN, "f", CLOSE>>, <<"hi", OPEN, "message", CLOSE>>}

\* os.ReadFile: the file f exists and itself contains a directive, no other
\* path can be read
ReadFile(path) ==
  IF path = <<"f">>
    THEN [ok |-> TRUE, content |-> <<"F", OPEN, "message", CLOSE>>]
    ELSE [ok |-> FALSE, content |-> <<>>]

RECURSIVE TrimLeft(_)
TrimLeft(s) == IF s # <<>> /\ Head(s) = SPACE THEN TrimLeft(Tail(s)) ELSE s

RECURSIVE TrimRight(_)
TrimRight(s) ==
  IF s # <<>> /\ s[Len(s)] = SPACE THEN TrimRight(SubSeq(s, 1, Len(s) - 1)) ELSE s

\* strings.TrimSpace
TrimSpace(s) == TrimRight(TrimLeft(s))

\* the regular expression <\{([^}]+)\}> tried at position i of t: the position
\* of the closing token of the match, or 0 if there is no match at i. Only
\* the token "}>" contains a closing brace, so [^}]+ runs up to the first one.
MatchEnd(t, i) ==
  LET closes == {j \in (i + 1)..Len(t) : t[j] = CLOSE}
      first == CHOOSE j \in closes : \A k \in closes : j <= k
  IN IF t[i] = OPEN /\ closes # {} /\ first >= i + 2 THEN first ELSE 0

\* the callback given to ReplaceAllStringFunc, for one match
Replacement(match, userMessage) ==
  LET placeholder == TrimSpace(SubSeq(match, 2, Len(match) - 1))
  IN IF placeholder = messagePlaceholder
       THEN [src |-> "message", match |-> match, text |-> userMessage]
       ELSE IF ReadFile(placeholder).ok
         THEN [src |-> "file", match |-> match, text |-> ReadFile(placeholder).content]
         ELSE [src |-> "error", match |-> match,
               text |-> <<"[Error reading ">> \o placeholder \o <<": no such file]">>]

\* ReplaceAllStringFunc from position i on: the leftmost matches, none
\* overlapping another, each replaced by what the callback returns; the text
\* between the matches is copied
RECURSIVE ReplaceAllStringFunc(_, _, _)
ReplaceAllStringFunc(t, i, userMessage) ==
  IF i > Len(t) THEN <<>>
  ELSE IF MatchEnd(t, i) # 0
    THEN <<Replacement(SubSeq(t, i, MatchEnd(t, i)), userMessage)>>
           \o ReplaceAllStringFunc(t, MatchEnd(t, i) + 1, userMessage)
    ELSE <<[src |-> "template", match |-> <<>>, text |-> <<t[i]>>]>>
           \o ReplaceAllStringFunc(t, i + 1, userMessage)

\* the string made of the pieces, one after the other
RECURSIVE Join(_)
Join(pieces) == IF pieces = <<>> THEN <<>> ELSE Head(pieces).text \o Join(Tail(pieces))

ProcessTemplateString_Recursive(template, userMessage) ==
  Join(ReplaceAllStringFunc(Join(ReplaceAllStringFunc(template, 1, userMessage)),
                            1, userMessage))

ProcessTemplateString(template, userMessage) ==
  Join(ReplaceAllStringFunc(template, 1, userMessage))

(***************************************************************************)
(* SpecExpand: one call of ProcessTemplateString on any template and any   *)
(* user message.                                                           *)
(***************************************************************************)
InitExpand ==
  /\ ProgramInit
  /\ pureIn \in [fn : {"expand"}, template : Templates, userMessage : UserMessages]
  /\ pureOut = NoOutput

\* the call, with the pieces its callback and the copying produced
CallProcessTemplateString ==
  /\ pureIn.fn = "expand"
  /\ pureOut = NoOutput
  /\ pureOut' = [fn |-> "expand",
                 result |-> ProcessTemplateString(pureIn.template, pureIn.userMessage),
                 pieces |-> ReplaceAllStringFunc(pureIn.template, 1, pureIn.userMessage)]
  /\ UNCHANGED <<admVars, cancelCalls, ctxCount, callVars, lastPrefix, watcherVars,
                 workerVars, legacyVars, handlerVars, trackVars, lifeVars, checkVars,
                 pureIn, extVars>>

NextExpand == CallProcessTemplateString

SpecExpand == InitExpand /\ [][NextExpand]_vars

\* where piece k starts in the joined string
Offset(pieces, k) == Len(Join(SubSeq(pieces, 1, k - 1))) + 1

\* the directives of a string
Directives(t) == {i \in 1..Len(t) : MatchEnd(t, i) # 0}

\* C25: the result is the pieces of one pass over the template, end to end:
\* at the place of every directive that names the message stands the user
\* message as it was given, at the place of every directive that names a
\* readable file stand the contents of that file as they are, whatever
\* directives the message or the file contain.
C25_SinglePassVerbatim ==
  pureOut.fn = "expand" =>
    LET pieces == pureOut.pieces
        result == pureOut.result
    IN /\ Len(result) = Len(Join(pieces))
       /\ \A k \in 1..Len(pieces) :
            /\ SubSeq(result, Offset(pieces, k), Offset(pieces, k) + Len(pieces[k].text) - 1)
                 = pieces[k].text
            /\ pieces[k].src = "message" => pieces[k].text = pureIn.userMessage
            /\ pieces[k].src = "file" =>
                 pieces[k].text = ReadFile(TrimSpace(SubSeq(pieces[k].match, 2,
                                                       Len(pieces[k].match) - 1))).content

\* a template that includes the file and names the message was expanded with
\* a message that contains a directive
C25_Witness ==
  /\ pureOut.fn = "expand"
  /\ \E k \in 1..Len(pureOut.pieces) : pureOut.pieces[k].src = "file"
  /\ \E k \in 1..Len(pureOut.pieces) :
       /\ pureOut.pieces[k].src = "message"
       /\ Directives(pureOut.pieces[k].text) # {}
  /\ Directives(pureOut.result) # {}

\* C26: the user message is inserted once for every directive of the
\* template that is literally <{message}>, and every other directive is
\* treated as a file path.
C26_InsertsPerLiteralDirective ==
  pureOut.fn = "expand" =>
    \A k \in 1..Len(pureOut.pieces) :
      pureOut.pieces[k].src # "template" =>
        (pureOut.pieces[k].src = "message"
           <=> pureOut.pieces[k].match = <<OPEN, "message", CLOSE>>)

(***************************************************************************)
(* handleChatCompletion: the request body. A body is modelled as the JSON  *)
(* text the client wrote (members in the order written, numbers as         *)
(* literals, strings with their escapes); json.Unmarshal turns it into Go  *)
(* values and json.Marshal writes those back as text.                      *)
(***************************************************************************)
\* JSON text
Str(s) == [k |-> "string", v |-> s]
Num(lit) == [k |-> "number", v |-> lit]
Bool(b) == [k |-> "bool", v |-> b]
Arr(items) == [k |-> "array", v |-> items]
Obj(members) == [k |-> "object", v |-> members]
\* no body
NoBody == [k |-> "none", v |-> <<>>]

\* the escapes of the characters < and > that json.Marshal writes
EscOPEN == "\\u003c{"
EscCLOSE == "}\\u003e"

\* a string of a JSON text read into a Go string
Unescape(s) ==
  [i \in 1..Len(s) |-> IF s[i] = EscOPEN THEN OPEN ELSE IF s[i] = EscCLOSE THEN CLOSE ELSE s[i]]

\* a Go string written as a string of a JSON text (HTML-safe escaping)
Escape(s) ==
  [i \in 1..Len(s) |-> IF s[i] = OPEN THEN EscOPEN ELSE IF s[i] = CLOSE THEN EscCLOSE ELSE s[i]]

\* a number literal read into a float64, named by its shortest literal
ParseFloat(lit) ==
  CASE lit = "1.0" -> "1"
    [] lit = "1e2" -> "100"
    [] OTHER -> lit

\* json.Unmarshal into interface{}: objects become map[string]interface{} (of
\* two members with one key the later wins), numbers become float64
RECURSIVE Unmarshal(_)
Unmarshal(t) ==
  CASE t.k = "string" -> [k |-> "string", v |-> Unescape(t.v)]
    [] t.k = "number" -> [k |-> "float64", v |-> ParseFloat(t.v)]
    [] t.k = "bool" -> t
    [] t.k = "array" -> [k |-> "array", v |-> [i \in 1..Len(t.v) |-> Unmarshal(t.v[i])]]
    [] t.k = "object" ->
         [k |-> "map",
          v |-> [key \in {t.v[i][1] : i \in 1..Len(t.v)} |->
                   LET last == CHOOSE i \in 1..Len(t.v) :
                                 /\ t.v[i][1] = key
                                 /\ \A j \in 1..Len(t.v) : t.v[j][1] = key => j <= i
                   IN Unmarshal(t.v[last][2])]]

\* the keys of the bodies, in the order json.Marshal writes them (sorted)
SortedKeys == <<"content", "messages", "name", "role", "stream", "temperature">>

\* json.Marshal of a Go value
RECURSIVE Marshal(_)
Marshal(x) ==
  CASE x.k = "string" -> [k |-> "string", v |-> Escape(x.v)]
    [] x.k = "float64" -> [k |-> "number", v |-> x.v]
    [] x.k = "bool" -> x
    [] x.k = "array" -> [k |-> "array", v |-> [i \in 1..Len(x.v) |-> Marshal(x.v[i])]]
    [] x.k = "map" ->
         LET keys == SelectSeq(SortedKeys, LAMBDA key : key \in DOMAIN x.v)
         IN [k |-> "object",
             v |-> [i \in 1..Len(keys) |-> <<keys[i], Marshal(x.v[keys[i]])>>]]

HasPrefix(s, prefix) == Len(s) >= Len(prefix) /\ SubSeq(s, 1, Len(prefix)) = prefix

TrimPrefix(s, prefix) ==
  IF HasPrefix(s, prefix) THEN SubSeq(s, Len(prefix) + 1, Len(s)) ELSE s

\* the template files of the configured prefixes
TemplateFile(prefix) ==
  IF prefix = "@a" THEN <<"A:", SPACE, OPEN, "message", CLOSE>>
                   ELSE <<OPEN, "f", CLOSE, OPEN, "message", CLOSE>>

\* the index of the last message that is an object whose role is the string
\* "user", 0 if there is none
lastUserIndex(messagesArray) ==
  LET users == {i \in 1..Len(messagesArray) :
                  /\ messagesArray[i].k = "map"
                  /\ "role" \in DOMAIN messagesArray[i].v
                  /\ messagesArray[i].v["role"].k = "string"
                  /\ messagesArray[i].v["role"].v = <<"user">>}
  IN IF users = {} THEN 0 ELSE CHOOSE i \in users : \A j \in users : j <= i

\* http.Error with the status, nothing forwarded
Rejected(status) == [fn |-> "inject", status |-> status, requestPrefix |-> "", forwarded |-> NoBody]

\* no status written: the handler goes on to forward the marshalled requestMap
Forwarded(requestMap, requestPrefix) ==
  [fn |-> "inject", status |-> 0, requestPrefix |-> requestPrefix,
   forwarded |-> Marshal(requestMap)]

\* requestMap with the content of message i replaced
WithContent(requestMap, i, content) ==
  [requestMap EXCEPT !.v["messages"].v[i].v["content"] = [k |-> "string", v |-> content]]

InjectTemplate_AnyUserMessage(bodyBytes, readable) ==
  LET requestMap == Unmarshal(bodyBytes)
      messagesArray == requestMap.v["messages"].v
      prefixed == {i \in 1..Len(messagesArray) :
                     /\ messagesArray[i].k = "map"
                     /\ "content" \in DOMAIN messagesArray[i].v
                     /\ messagesArray[i].v["content"].k = "string"
                     /\ \E p \in Prefixes :
                          HasPrefix(messagesArray[i].v["content"].v, <<p, SPACE>>)}
  IN IF bodyBytes.k # "object" THEN Rejected(400)
     ELSE IF "messages" \notin DOMAIN requestMap.v THEN Rejected(400)
     ELSE IF requestMap.v["messages"].k # "array" THEN Rejected(400)
     ELSE IF prefixed = {} THEN Forwarded(requestMap, "")
     ELSE LET i == CHOOSE i \in prefixed : \A j \in prefixed : i <= j
              userMessage == messagesArray[i].v["content"].v
              prefix == CHOOSE p \in Prefixes : HasPrefix(userMessage, <<p, SPACE>>)
          IN Forwarded(WithContent(requestMap, i,
                         ProcessTemplateString(TemplateFile(prefix),
                                               TrimPrefix(userMessage, <<prefix, SPACE>>))),
                       prefix)

InjectTemplate_NoSpace(bodyBytes, readable) ==
  LET requestMap == Unmarshal(bodyBytes)
      messagesArray == requestMap.v["messages"].v
      i == lastUserIndex(messagesArray)
      userMessage == messagesArray[i].v["content"].v
      matches == {p \in Prefixes : HasPrefix(userMessage, <<p>>)}
      prefix == CHOOSE p \in matches : TRUE
  IN IF bodyBytes.k # "object" THEN Rejected(400)
     ELSE IF "messages" \notin DOMAIN requestMap.v THEN Rejected(400)
     ELSE IF requestMap.v["messages"].k # "array" THEN Rejected(400)
     ELSE IF i = 0 THEN Forwarded(requestMap, "")
     ELSE IF "content" \notin DOMAIN messagesArray[i].v THEN Rejected(400)
     ELSE IF messagesArray[i].v["content"].k # "string" THEN Rejected(400)
     ELSE IF matches = {} THEN Forwarded(requestMap, "")
     ELSE IF ~readable THEN Rejected(500)
     ELSE Forwarded(WithContent(requestMap, i,
                      ProcessTemplateString(TemplateFile(prefix),
                                            TrimPrefix(userMessage, <<prefix>>))),
                    prefix)

\* handleChatCompletion from the body read to the body marshalled again;
\* readable: the template file of the prefix can be read. The configured
\* prefixes contain no space, so at most one of them matches and the order
\* in which the map of prefixes is ranged over does not matter.
InjectTemplate(bodyBytes, readable) ==
  LET requestMap == Unmarshal(bodyBytes)
      messagesArray == requestMap.v["messages"].v
      i == lastUserIndex(messagesArray)
      userMessage == messagesArray[i].v["content"].v
      matches == {p \in Prefixes : HasPrefix(userMessage, <<p, SPACE>>)}
      prefix == CHOOSE p \in matches : TRUE
  IN IF bodyBytes.k # "object" THEN Rejected(400)
     ELSE IF "messages" \notin DOMAIN requestMap.v THEN Rejected(400)
     ELSE IF requestMap.v["messages"].k # "array" THEN Rejected(400)
     ELSE IF i = 0 THEN Forwarded(requestMap, "")
     ELSE IF "content" \notin DOMAIN messagesArray[i].v THEN Rejected(400)
     ELSE IF messagesArray[i].v["content"].k # "string" THEN Rejected(400)
     ELSE IF matches = {} THEN Forwarded(requestMap, "")
     ELSE IF ~readable THEN Rejected(500)
     ELSE Forwarded(WithContent(requestMap, i,
                      ProcessTemplateString(TemplateFile(prefix),
                                            TrimPrefix(userMessage, <<prefix, SPACE>>))),
                    prefix)

(***************************************************************************)
(* SpecInject: one chat-completion body through handleChatCompletion.      *)
(***************************************************************************)
\* what clients write as the content of a message
ContentTexts ==
  {Str(<<"@a", SPACE, "hi">>), Str(<<"@a">>), Str(<<"hi">>),
   Str(<<"@b", SPACE, EscOPEN, "message", CLOSE>>), Num("1.0")}

MessageTexts ==
  {Obj(<<<<"role", Str(<<r>>)>>, <<"content", c>>>>) :
     r \in {"user", "assistant"}, c \in ContentTexts}
  \cup {Obj(<<<<"name", Str(<<"n">>)>>, <<"content", Str(<<"@a", SPACE, "hi">>)>>,
              <<"role", Str(<<"user">>)>>>>),
        Str(<<"hi">>)}

MessageLists == UNION {[1..n -> MessageTexts] : n \in 0..MaxMessages}

Bodies ==
  {Obj(<<<<"messages", Arr(ms)>>>>) : ms \in MessageLists}
  \cup {Obj(<<<<"temperature", Num("1.0")>>, <<"stream", Bool(TRUE)>>,
              <<"messages", Arr(ms)>>>>) : ms \in MessageLists}
  \cup {Obj(<<<<"stream", Bool(TRUE)>>>>),
        Obj(<<<<"messages", Str(<<"hi">>)>>>>),
        Arr(<<>>)}

InitInject ==
  /\ ProgramInit
  /\ pureIn \in [fn : {"inject"}, body : Bodies]
  /\ pureOut = NoOutput

CallInjectTemplate ==
  /\ pureIn.fn = "inject"
  /\ pureOut = NoOutput
  /\ \E readable \in BOOLEAN : pureOut' = InjectTemplate(pureIn.body, readable)
  /\ UNCHANGED <<admVars, cancelCalls, ctxCount, callVars, lastPrefix, watcherVars,
                 workerVars, legacyVars, handlerVars, trackVars, lifeVars, checkVars,
                 pureIn, extVars>>

NextInject == CallInjectTemplate

SpecInject == InitInject /\ [][NextInject]_vars

\* the message is an object whose role is "user"
IsUser(m) ==
  /\ m.k = "map"
  /\ "role" \in DOMAIN m.v
  /\ m.v["role"].k = "string"
  /\ m.v["role"].v = <<"user">>

\* the expansions of a content that starts with a prefix and a space
Expansions(content) ==
  {ProcessTemplateString(TemplateFile(p), TrimPrefix(content, <<p, SPACE>>)) :
     p \in {q \in Prefixes : HasPrefix(content, <<q, SPACE>>)}}

LastUserContent(body) ==
  LET om == Unmarshal(body).v["messages"].v
      users == {i \in 1..Len(om) : IsUser(om[i])}
  IN IF users = {} THEN <<>>
     ELSE om[CHOOSE i \in users : \A j \in users : j <= i].v["content"].v

Entries(t, e) == {i \in 1..Len(t) : t[i] = e}

IsPassthrough(r) == hTrace[r] # <<>> /\ hTrace[r][1][1] = "reverseProxy"

\* C30: a request for another path is handed to the reverse proxy and
\* answered; its steps leave the admission record, the state tracker and
\* the warmup in progress (its cancel function and the cancellation metric)
\* as they are, and the only call it makes is the one to the backend.
C30_PassthroughTouchesNothing ==
  [][ \A r \in Requests :
        /\ IsPassthrough(r)' =>
             /\ hTrace'[r] \in {<< <<"reverseProxy", path>> >> : path \in OtherPaths}
             /\ hPrefix'[r] = ""
             /\ hpc'[r] \in {"proxying", "done"}
        /\ (IsPassthrough(r)' /\ <<hpc[r], hTrace[r], hStatus[r]>> # <<hpc'[r], hTrace'[r], hStatus'[r]>>) =>
             UNCHANGED <<admVars, cancelCalls, ctxCount, lastPrefix, legacyVars,
                         trackVars, workerVars, watcherVars>>
    ]_vars

\* a request for another path has been answered while a warmup is in
\* progress, its request to the backend in flight and not cancelled
C30_Witness ==
  \E r \in Requests :
    /\ IsPassthrough(r)
    /\ hpc[r] = "done"
    /\ hStatus[r] = 200
    /\ warmupInProgress
    /\ wInflight.op # "none"
    /\ mWarmupCancelFunc # NilFunc
    /\ cancelCalls[mWarmupCancelFunc] = 0

(***************************************************************************)
(* The backend (llama.cpp server) as the KV-cache client and the           *)
(* completion requests see it: slot 0 holds the state of one template (""  *)
(* for none), action=save writes the slot to the named file, action=restore*)
(* loads the named file into the slot or answers 404 when there is no such *)
(* file, and an answered completion leaves the slot holding the state of   *)
(* the prompt it processed.                                                *)
(***************************************************************************)
\* POST /slots/0?action=save for the file of prefix returns
BackendSave(prefix, outcome) ==
  /\ outcome \in {"success", "error"}
  /\ files' = IF outcome = "success" THEN [files EXCEPT ![prefix] = slot] ELSE files
  /\ lastIO' = [op |-> "save", prefix |-> prefix, outcome |-> outcome]
  /\ UNCHANGED slot

\* POST /slots/0?action=restore for the file of prefix returns
BackendRestore(prefix, outcome) ==
  /\ outcome \in {"success", "not_found", "error"}
  /\ outcome = "success" => files[prefix] # "none"
  /\ outcome = "not_found" => files[prefix] = "none"
  /\ slot' = IF outcome = "success" THEN files[prefix] ELSE slot
  /\ lastIO' = [op |-> "restore", prefix |-> prefix, outcome |-> outcome]
  /\ UNCHANGED files

\* the backend answers a completion request made of the template of prefix
BackendCompletion(prefix) ==
  /\ slot' = prefix
  /\ lastIO' = [op |-> "completion", prefix |-> prefix, outcome |-> "success"]
  /\ UNCHANGED files

SlotWarmupSaveReturn ==
  \E outcome \in {"success", "error"} :
    warmupSaveReturn /\ BackendSave(wInflight.prefix, outcome)

SlotWarmupRestoreReturn ==
  \E outcome \in {"success", "not_found", "error"} :
    warmupRestoreReturn /\ BackendRestore(wInflight.prefix, outcome)

SlotWarmupCompletionOK == warmupCompletionOK /\ BackendCompletion(wPrefix)

SlotHandleSaveReturn(r) ==
  \E outcome \in {"success", "error"} :
    handleSaveReturn(r) /\ BackendSave(hInflight[r].prefix, outcome)

SlotHandleRestoreReturn(r) ==
  \E outcome \in {"success", "not_found", "error"} :
    handleRestoreReturn(r) /\ BackendRestore(hInflight[r].prefix, outcome)

SlotHandleResponse(r) == handleResponse(r) /\ BackendCompletion(hPrefix[r])

(***************************************************************************)
(* SpecSlot: SpecProxy with the backend's slot and cache files followed.   *)
(***************************************************************************)
NextSlot ==
  \/ CheckAndWarmup
  \/ TickDone
  \/ ManagerWarmupStart
  \/ WarmupShouldSave
  \/ WarmupSave
  \/ SlotWarmupSaveReturn
  \/ WarmupRestore
  \/ SlotWarmupRestoreReturn
  \/ WarmupProcess
  \/ WarmupSend
  \/ SlotWarmupCompletionOK
  \/ WarmupCompletionErr
  \/ WarmupUpdate
  \/ ManagerWarmupEnd
  \/ WarmupReturn
  \/ \E r \in Requests : HandleIsWarmupInProgress(r)
  \/ \E r \in Requests : HandleCancelWarmup(r)
  \/ \E r \in Requests : HandleShouldSave(r)
  \/ \E r \in Requests : HandleSave(r)
  \/ \E r \in Requests : SlotHandleSaveReturn(r)
  \/ \E r \in Requests : HandleRestore(r)
  \/ \E r \in Requests : SlotHandleRestoreReturn(r)
  \/ \E r \in Requests : HandleForward(r)
  \/ \E r \in Requests : HandleForwardErr(r)
  \/ \E r \in Requests : SlotHandleResponse(r)
  \/ \E r \in Requests : HandleStreamChunk(r)
  \/ \E r \in Requests : HandleStreamEnd(r)

SpecSlot == Init /\ [][NextSlot]_vars

(***************************************************************************)
(* The tracker and the slot (checked under SpecSlot)                       *)
(***************************************************************************)
\* no chat-completion request is being handled and no warmup attempt is
\* under way
Quiescent ==
  /\ \A r \in Requests : hpc[r] \in {"idle", "done"}
  /\ wpc \in {"wait", "next"}
  /\ wInflight = NoCall

\* C31: whenever no user request and no warmup is in flight, lastPrefix is
\* the template whose state slot 0 holds, and every cache file that exists
\* holds the state of the template it is named after.
C31_LastPrefixNamesSlot ==
  /\ Quiescent => lastPrefix = slot
  /\ \A p \in Prefixes \cup {""} : files[p] \in {"none", p}

ObservedProcess ==
  /\ warmupProcess
  /\ wText' = IF wpc' = "send" THEN fileText[wPrefix] ELSE wText
  /\ UNCHANGED warmedText

\* the attempt succeeds: the text it sent is the text the backend is warm for
ObservedUpdate ==
  /\ warmupUpdate
  /\ warmedText' = [warmedText EXCEPT ![wPrefix] = [warmed |-> TRUE, text |-> wText]]
  /\ UNCHANGED wText

NextWarmed ==
  \/ CheckAndWarmup
  \/ TickDone
  \/ WarmupAcquire
  \/ WarmupShouldSave
  \/ WarmupSave
  \/ WarmupSaveReturn
  \/ WarmupRestore
  \/ WarmupRestoreReturn
  \/ ObservedProcess
  \/ WarmupSend
  \/ WarmupCompletionOK
  \/ WarmupCompletionErr
  \/ ObservedUpdate
  \/ WarmupRelease
  \/ WarmupReturn
  \/ EditFile

SpecWarmed == Init /\ [][NextWarmed]_vars

\* C33: a template whose current expansion is not the text its latest
\* successful warmup sent is marked for warmup, or the next check that reads
\* its file reports it (the digest of the current expansion is not the stored
\* digest).
C33_NoEditMissed ==
  \A p \in Prefixes :
    (warmedText[p].warmed /\ fileText[p] # warmedText[p].text) =>
      (needsWarmup[p] \/ hashString(fileText[p]) # processedHash[p])

(***************************************************************************)
(* The prefix a save is issued for (checked under SpecProxy)               *)
(***************************************************************************)
\* C34: every save a chat request or a warmup attempt issues names a
\* non-empty prefix other than the prefix of the request or attempt itself
\* (the lastPrefix that made its ShouldSave true).
C34_SaveNamesOldPrefix ==
  /\ \A r \in Requests : \A i \in Calls(hTrace[r], "save") :
       /\ hTrace[r][i][2] # ""
       /\ hTrace[r][i][2] # hPrefix[r]
  /\ wInflight.op = "save" =>
       /\ wInflight.prefix # ""
       /\ wInflight.prefix # wPrefix

(***************************************************************************)
(* SpecPaired: the Controller with the warmup worker and with user         *)
(* requests that call AcquireUserQuery on arrival and ReleaseUserQuery     *)
(* once when they are done.                                                *)
(***************************************************************************)
\* a user request arrives
PairedAcquire ==
  /\ callAcquireUserQuery
  /\ holding' = holding + 1
  /\ UNCHANGED <<quiet, missing>>

\* a user request that arrived earlier is done
PairedRelease ==
  /\ holding > 0
  /\ callReleaseUserQuery
  /\ holding' = holding - 1
  /\ UNCHANGED <<quiet, missing>>

NextPaired ==
  \/ CheckAndWarmup
  \/ TickDone
  \/ WarmupAcquire
  \/ WarmupShouldSave
  \/ WarmupSave
  \/ WarmupSaveReturn
  \/ WarmupRestore
  \/ WarmupRestoreReturn
  \/ WarmupProcess
  \/ WarmupSend
  \/ WarmupCompletionOK
  \/ WarmupCompletionErr
  \/ WarmupUpdate
  \/ WarmupRelease
  \/ WarmupReturn
  \/ EditFile
  \/ PairedAcquire
  \/ PairedRelease

SpecPaired == Init /\ [][NextPaired]_vars

\* C35: userQueryCount is the number of user requests that have acquired
\* and not yet released, and every ReleaseUserQuery is called in USER_QUERY.
C35_CountIsOutstandingRequests ==
  [][ /\ userQueryCount = holding
      /\ userQueryCount' = holding'
      /\ holding' < holding => (currentState = USER_QUERY /\ userQueryCount >= 1)
    ]_vars

\* two user requests hold the slot and the warmup they pre-empted has just
\* made its late ReleaseWarmup
C35_Witness ==
  /\ holding = 2
  /\ userQueryCount = 2
  /\ lastOp = "ReleaseWarmup"
  /\ wResult = "warmup cancelled"

(***************************************************************************)
(* What CheckForChanges reports and stores (checked under SpecCheck)       *)
(***************************************************************************)
\* C36: CheckForChanges reports a prefix exactly if its flag was set or its
\* file can be read and the digest of its expansion is not the stored
\* digest; after the call every reported prefix has its flag set and, when
\* its file can be read, the digest of its current expansion stored.
C36_ReportsAndStoresDigest ==
  [][ (wpc = "wait" /\ wpc' = "next") =>
        \A p \in Prefixes :
          /\ p \in lastCheck'.changed <=>
               \/ needsWarmup[p]
               \/ /\ p \notin lastCheck'.unreadable
                  /\ hashString(fileText[p]) # processedHash[p]
          /\ p \in lastCheck'.changed =>
               /\ needsWarmup'[p]
               /\ p \notin lastCheck'.unreadable =>
                    processedHash'[p] = hashString(fileText[p])
    ]_vars

FailedIO(io) == io.op \in {"save", "restore"} /\ io.outcome \in {"error", "not_found"}

\* C38: a cache save or restore that fails (404 on restore included) does not
\* end the operation that issued it: the warmup goes on to its next step
\* with no error recorded, and the user request goes on to be forwarded; a
\* request that is ready to be forwarded is sent to the backend, and a warmup
\* that has passed its cache steps is given up only for an unreadable
\* template or a cancellation.
C38_FailedCacheCallGoesOn ==
  [][ /\ (wpc = "saving" /\ wpc' # "saving" /\ FailedIO(lastIO')) =>
           (wpc' = "shouldRestore" /\ wResult' = wResult /\ wPrefix' = wPrefix)
      /\ (wpc = "restoring" /\ wpc' # "restoring" /\ FailedIO(lastIO')) =>
           (wpc' = "process" /\ wResult' = wResult /\ wPrefix' = wPrefix)
      /\ (wpc = "process" /\ wpc' # "process") =>
           (wpc' = "send" \/ wResult' = "template_error")
      /\ (wpc = "send" /\ wpc' # "send") =>
           \/ wpc' = "completing" /\ wInflight' = [op |-> "completion", prefix |-> wPrefix]
           \/ wResult' = "warmup cancelled"
      /\ \A r \in Requests :
           /\ (hpc[r] = "saving" /\ hpc'[r] # "saving" /\ FailedIO(lastIO')) =>
                (hpc'[r] = "shouldRestore" /\ hStatus'[r] = hStatus[r])
           /\ (hpc[r] = "restoring" /\ hpc'[r] # "restoring" /\ FailedIO(lastIO')) =>
                (hpc'[r] = "forward" /\ hStatus'[r] = hStatus[r])
           /\ (hpc[r] = "shouldRestore" /\ hpc'[r] # "shouldRestore") =>
                hpc'[r] \in {"restoring", "forward"}
           /\ (hpc[r] = "forward" /\ hpc'[r] # "forward") =>
                (hpc'[r] = "forwarding" /\ hInflight'[r] = [op |-> "chat", prefix |-> hPrefix[r]])
    ]_vars

\* a user request has been forwarded right after its restore was answered
\* 404, and no cache request has returned since
C38_Witness ==
  \E r \in Requests :
    /\ hpc[r] = "forwarding"
    /\ lastIO = [op |-> "restore", prefix |-> hPrefix[r], outcome |-> "not_found"]
    /\ Calls(hTrace[r], "restore") # {}
    /\ wpc \notin {"restoring", "process", "send", "completing", "update"}

(***************************************************************************)
(* SpecLive: SpecPaired run by a fair scheduler, and left alone from some  *)
(* point on.  The worker goroutine keeps running, its ticker keeps firing  *)
(* and a user request that was admitted ends, so each of these steps is    *)
(* taken when it stays possible.  Once the system is left alone no user    *)
(* request arrives, no file is edited, a warmup completion fails only for  *)
(* a context that was cancelled before, and a template file can be read    *)
(* unless it is one of those that have gone missing for good.              *)
(***************************************************************************)
\* from now on the system is left alone; the files in gone stay unreadable
Settle ==
  /\ ~quiet
  /\ quiet' = TRUE
  /\ \E gone \in SUBSET Prefixes : missing' = gone
  /\ UNCHANGED <<holding, slotVars, warmedVars, metricsVars>>
  /\ UNCHANGED <<trackVars, lifeVars, checkVars, pureVars,
                 admVars, cancelCalls, ctxCount, callVars, lastPrefix, watcherVars,
                 workerVars, legacyVars, handlerVars>>

\* the ticker fires: checkAndWarmup calls CheckForChanges
LiveCheckAndWarmup ==
  /\ \E unreadable \in SUBSET Prefixes : \E changed \in ChangedLists :
       /\ quiet => unreadable = missing
       /\ checkAndWarmup(changed, unreadable)
  /\ UNCHANGED <<lifeVars, checkVars>>

\* ProcessTemplate(prefix, "") of the attempt
LiveProcess ==
  /\ WarmupProcess
  /\ quiet => (wpc' = "send" <=> wPrefix \notin missing)

\* the completion request fails
LiveCompletionErr ==
  /\ wpc = "completing"
  /\ quiet => cancelCalls[wCtx] > 0
  /\ WarmupCompletionErr

LiveEditFile == ~quiet /\ EditFile

LiveAcquire == ~quiet /\ PairedAcquire

\* the steps of the worker goroutine between two ticks
WorkerStep ==
  \/ TickDone
  \/ WarmupAcquire
  \/ WarmupShouldSave
  \/ WarmupSave
  \/ WarmupSaveReturn
  \/ WarmupRestore
  \/ WarmupRestoreReturn
  \/ LiveProcess
  \/ WarmupSend
  \/ WarmupCompletionOK
  \/ LiveCompletionErr
  \/ WarmupUpdate
  \/ WarmupRelease
  \/ WarmupReturn

NextLive ==
  \/ LiveCheckAndWarmup
  \/ WorkerStep
  \/ LiveEditFile
  \/ LiveAcquire
  \/ PairedRelease
  \/ Settle

SpecLive ==
  /\ Init
  /\ [][NextLive]_vars
  /\ WF_vars(LiveCheckAndWarmup)
  /\ WF_vars(WorkerStep)
  /\ WF_vars(PairedRelease)

\* no template is marked for warmup and the worker is between ticks or in a
\* tick that found nothing to warm
Settled ==
  /\ \A p \in Prefixes : ~needsWarmup[p]
  /\ wpc \in {"wait", "next"}
  /\ wQueue = <<>>
  /\ wInflight = NoCall

notMetrics == <<trackVars, lifeVars, checkVars, pureVars, slotVars, pairVars, warmedVars,
                admVars, cancelCalls, ctxCount, callVars, lastPrefix, watcherVars,
                workerVars, legacyVars, handlerVars>>

\* the sum of the counters of a map from (endpoint, status) to count
RECURSIVE SumOver(_, _)
SumOver(counts, keys) ==
  IF keys = {} THEN 0
  ELSE LET k == CHOOSE x \in keys : TRUE
       IN  counts[k] + SumOver(counts, keys \ {k})

SumCounts(counts) == SumOver(counts, DOMAIN counts)

\* Metrics.RecordRequest, all of it under m.mu.Lock
RecordRequest(endpoint, statusCode) ==
  /\ TotalRequests < MaxRecords
  /\ RequestCount' = [RequestCount EXCEPT ![<<endpoint, statusCode>>] = @ + 1]
  /\ TotalRequests' = TotalRequests + 1
  /\ UNCHANGED <<scrape, notMetrics>>

\* handleMetrics: snapshot := s.metrics.GetSnapshot(), a copy of
\* RequestCount made under m.mu.RLock
HandleMetricsSnapshot ==
  /\ scrape.pc = "idle"
  /\ scrape' = [pc |-> "totals", snapshot |-> RequestCount, count |-> scrape.count]
  /\ UNCHANGED <<RequestCount, TotalRequests, notMetrics>>

\* handleMetrics: the bioproxy_requests_total lines are written from the
\* snapshot, then s.metrics.TotalRequests is read with no lock held: the
\* read yields a value the counter has had since the snapshot was taken
HandleMetricsCount ==
  /\ scrape.pc = "totals"
  /\ \E n \in SumCounts(scrape.snapshot)..TotalRequests :
       scrape' = [scrape EXCEPT !.pc = "done", !.count = n]
  /\ UNCHANGED <<RequestCount, TotalRequests, notMetrics>>

\* the response is complete
HandleMetricsReturn ==
  /\ scrape.pc = "done"
  /\ scrape' = [scrape EXCEPT !.pc = "idle"]
  /\ UNCHANGED <<RequestCount, TotalRequests, notMetrics>>

NextMetrics ==
  \/ \E endpoint \in Endpoints, statusCode \in StatusCodes :
       RecordRequest(endpoint, statusCode)
  \/ HandleMetricsSnapshot
  \/ HandleMetricsCount
  \/ HandleMetricsReturn

SpecMetrics == Init /\ [][NextMetrics]_vars

\* C40: in a complete /metrics response the value of bioproxy_requests_count
\* is the sum of the bioproxy_requests_total values of that response.
C40_CountIsSumOfTotals ==
  scrape.pc = "done" => scrape.count = SumCounts(scrape.snapshot)

====
